---- MODULE Spec2Model ----
(***************************************************************************)
(* Model of the WorldCat search driver (search_worldcat.py, main) and of   *)
(* the request/token lifecycle of RecordsBuffer.make_api_request           *)
(* (libraries/records_buffer.py).                                          *)
(*                                                                         *)
(* One thread of control: the driver loop calls the search buffer's        *)
(* process_records, which calls make_api_request.  pc is the position of   *)
(* that thread.  The driver constructs its buffer under the name           *)
(* RecordSearchBuffer; the search buffer of records_buffer.py is           *)
(* WorldCatSearchBuffer, and that is the class modelled here.              *)
(*                                                                         *)
(* SpecBuffers is a second specification: any sequence of add,             *)
(* process_records and remove_all_records on one buffer object of one of   *)
(* the three classes, each operation in one step.                          *)
(***************************************************************************)
EXTENDS Integers, Sequences, FiniteSets, TLC

\* ---- bounds of the model ----
NumRows == 2
\* rows of the input file
MaxGrants == 2
\* tokens the authorization server issues during one run
MaxClock == 2
\* largest reading of the clock (seconds)
NumMmsIds == 2
\* distinct MMS IDs that may appear in the input file
MaxEntries == 2
\* response entries a holdings-check or set/unset buffer reads during its life

\* ---- program constants ----
RefreshMargin == 25
\* records_buffer.py:204  (refresh_token_expires_in > 25)

MmsIds == 1..NumMmsIds
Rows == 1..NumRows

\* HTTP statuses the remote API answers with
Statuses == {200, 404, 500, 503}

\* an exception in flight (kind "none": no exception)
NoExc == [kind |-> "none", status |-> 0, detail |-> ""]
AssertionError(d) == [kind |-> "AssertionError", status |-> 0, detail |-> d]
HTTPError(s) == [kind |-> "HTTPError", status |-> s, detail |-> ""]
JSONDecodeError == [kind |-> "JSONDecodeError", status |-> 0, detail |-> ""]
OtherError(d) == [kind |-> "Exception", status |-> 0, detail |-> d]

\* the driver's error_msg local (None, or one of the formatted messages)
NoMsg == [prefix |-> "", status |-> 0, detail |-> ""]
AssertionMsg(e) == [prefix |-> "Assertion Error: ", status |-> 0, detail |-> e.detail]
HTTPMsg(e) == [prefix |-> "HTTP Error: ", status |-> e.status, detail |-> ""]
JSONMsg(e) == [prefix |-> "JSON Decode Error: ", status |-> 0, detail |-> ""]
OtherMsg(e) == [prefix |-> "", status |-> 0, detail |-> e.detail]

\* a response body: decodable or not, and its numberOfRecords
NoBody == [json |-> FALSE, n |-> 0]
Bodies == {NoBody} \cup {[json |-> TRUE, n |-> k] : k \in 0..2}
NoResponse == [status |-> 0, body |-> NoBody]

\* the identifier columns of a row of the input file; read_csv is called with
\* dtype=str and keep_default_na=False, so an empty cell is the empty string;
\* the rows of one input file have the same columns filled
IdentifierColumns ==
    {"lccn_fixed", "lccn", "isbn", "issn", "gov_doc_class_num_086",
     "gpo_item_num_074"}
Identifiers(present) == [c \in IdentifierColumns |-> IF c \in present THEN c ELSE ""]
RowInputs ==
    {Identifiers({"lccn"}), Identifiers({"lccn_fixed", "lccn"}),
     Identifiers({"isbn", "issn"}),
     Identifiers({"gov_doc_class_num_086", "gpo_item_num_074"})}

\* one row of the DataFrame: its identifier columns and the result columns
\* (NaN is the empty set / sequence)
NewRow(ids) ==
    [lccn_fixed |-> ids["lccn_fixed"], lccn |-> ids["lccn"], isbn |-> ids["isbn"],
     issn |-> ids["issn"], gov_doc_class_num_086 |-> ids["gov_doc_class_num_086"],
     gpo_item_num_074 |-> ids["gpo_item_num_074"],
     oclc_num |-> {}, num_records_held_by |-> {}, num_records_total |-> {},
     found_multiple |-> FALSE, error |-> <<>>]
EmptyRow == NewRow(Identifiers({"lccn"}))

\* the three output files of the driver before they are written, and the
\* result of the final assertion
NoOutputs ==
    [records_with_oclc_num |-> {},
     records_with_zero_or_multiple_worldcat_matches |-> {},
     records_with_errors |-> {},
     total_records_in_output_files |-> 0,
     assertion |-> "not reached"]

\* OCLC numbers and MMS IDs the callers put into the holdings-check and
\* set/unset buffers
OclcNums == {"ocm1", "ocm2"}
AlmaMmsIds == {"mms1", "mms2"}

\* the last operation performed on the buffer object: its name, its
\* arguments, the exception it raised, the state before it, the request it
\* sent, the entries of the response its loop reached, the rows it
\* appended to each file, and for get_transaction_id and the first statements
\* of make_api_request the transaction id and the URL they built
NoRequest ==
    [method |-> "", oclcNumbers |-> {}, cascade |-> <<>>, q |-> <<>>,
     heldBySymbol |-> <<>>]
NoLast ==
    [op |-> "none", arg |-> <<>>, raised |-> NoExc,
     before |-> [oclc_num_dict |-> <<>>, oclc_num_set |-> {},
                 record_list |-> <<>>, data |-> <<>>,
                 files |-> [f \in {} |-> <<>>], results |-> [k \in {} |-> 0]],
     request |-> NoRequest, body |-> <<>>, entries |-> <<>>,
     written |-> [f \in {} |-> <<>>], transaction_id |-> "", api_url |-> ""]

\* what the token endpoint grants: the n-th token, issued at time t
AccessToken(n) == <<"access", n>>
TokenType(n) == <<"type", n>>
RefreshToken(n) == <<"refresh", n>>
ServerToken(n, t) ==
    [access_token |-> AccessToken(n), token_type |-> TokenType(n),
     expires_at |-> t + 1,
     refresh_token |-> RefreshToken(n),
     refresh_token_expires_at |-> t + RefreshMargin + 1]
NoToken == ServerToken(0, 0)

VARIABLES
    env, session_token, now, issued,
    pc, i, attempt, record_list, already, data,
    error_occurred, consecutive_errors_occurred, error_msg, exc,
    response, token, to_persist, call,
    outputs,
    buffer_class, set_or_unset_choice, cascade, oclc_num_dict, oclc_num_set,
    add_order, files, results, last

vars == <<env, session_token, now, issued, pc, i, attempt, record_list,
          already, data, error_occurred, consecutive_errors_occurred,
          error_msg, exc, response, token, to_persist, call, outputs,
          buffer_class, set_or_unset_choice, cascade, oclc_num_dict,
          oclc_num_set, add_order, files, results, last>>

\* the buffer object used outside the driver loop: its class, its constructor
\* arguments, its contents, its output files and the results dictionary
\* (add_order: the OCLC numbers in the buffer, in the order of their adds)
bufvars == <<buffer_class, set_or_unset_choice, cascade, oclc_num_dict,
             oclc_num_set, add_order, files, results, last>>

authvars == <<env, session_token, now, issued, token, to_persist>>
rowvars == <<i, attempt, record_list, already, data>>
localvars == <<error_occurred, consecutive_errors_occurred, error_msg>>

\* history of the current make_api_request call; first: during the retry of
\* a row, what the first process_records call of that row did (its transport
\* attempts and renewals, the exception it raised and the first digit of its
\* HTTP status, which is what line 177 reads)
NewCall(e) ==
    [attempts |-> <<>>, renewals |-> 0, grant |-> "none", renew_time |-> 0,
     rejected |-> FALSE, persisted |-> 0, env0 |-> e, result |-> "running",
     first |-> <<>>]

\* the credential variables of the environment / .env file at process start,
\* and the two identity variables get_transaction_id reads; the driver reads
\* os.environ['OCLC_INSTITUTION_SYMBOL'] before its loop, so there it is set
InitEnvs ==
    {[has_institution_symbol |-> TRUE, institution_symbol |-> "SYM",
      has_principal_id |-> FALSE, principal_id |-> "",
      access_token |-> AccessToken(0), token_type |-> TokenType(0),
      access_expires_at |-> 0,
      has_refresh_token |-> hr,
      refresh_token |-> IF hr THEN RefreshToken(0) ELSE <<>>,
      has_refresh_expires_at |-> he,
      refresh_expires_at |-> IF he THEN x ELSE 0] :
        hr \in BOOLEAN, he \in BOOLEAN,
        x \in {RefreshMargin + 1, RefreshMargin + 2}}

Init ==
    /\ env \in InitEnvs
    /\ session_token = env.access_token
    /\ now = 1
    /\ issued = 0
    /\ pc = "loop"
    /\ i = 1
    /\ attempt = 1
    /\ record_list = <<>>
    /\ already = {}
    /\ data = [r \in Rows |-> EmptyRow]
    /\ error_occurred = FALSE
    /\ consecutive_errors_occurred = FALSE
    /\ error_msg = NoMsg
    /\ exc = NoExc
    /\ response = NoResponse
    /\ token = NoToken
    /\ to_persist = <<>>
    /\ call = NewCall(env)
    /\ outputs = NoOutputs
    /\ buffer_class = "WorldCatSearchBuffer"
    /\ set_or_unset_choice = ""
    /\ cascade = ""
    /\ oclc_num_dict = <<>>
    /\ oclc_num_set = {}
    /\ add_order = <<>>
    /\ files = [f \in {} |-> <<>>]
    /\ results = [k \in {} |-> 0]
    /\ last = NoLast


\* ------------------------------------------------------------------------
\* RecordsBuffer.make_api_request
\* ------------------------------------------------------------------------

\* what one call of api_request(api_url, headers=headers) can come back with:
\* TokenExpiredError, another transport exception, or a response
TransportOutcomes ==
    {[kind |-> "expired", status |-> 0, body |-> NoBody],
     [kind |-> "error", status |-> 0, body |-> NoBody]}
    \cup {[kind |-> "response", status |-> 200, body |-> b] : b \in Bodies}
    \cup {[kind |-> "response", status |-> s, body |-> NoBody] :
            s \in Statuses \ {200}}

Attempt(o) == [token |-> session_token, kind |-> o.kind, status |-> o.status]

\* an exception leaves make_api_request (or process_records)
Raise(e) ==
    /\ exc' = e
    /\ pc' = "except"

\* variant: a 4xx response is taken for an expired token as well
ApiRequestRenewsOnClientError ==
    /\ pc = "send"
    /\ \E o \in TransportOutcomes :
        /\ IF o.kind = "expired" \/ o.status \div 100 = 4
           THEN /\ pc' = "renew"
                /\ call' = [call EXCEPT !.attempts = Append(@, Attempt(o))]
                /\ UNCHANGED <<exc, response>>
           ELSE IF o.kind = "error"
           THEN /\ Raise(OtherError("ConnectionError"))
                /\ call' = [call EXCEPT !.attempts = Append(@, Attempt(o)),
                                        !.result = "raised"]
                /\ UNCHANGED response
           ELSE /\ pc' = "check"
                /\ response' = [status |-> o.status, body |-> o.body]
                /\ call' = [call EXCEPT !.attempts = Append(@, Attempt(o))]
                /\ UNCHANGED exc
    /\ UNCHANGED <<bufvars, outputs, authvars, rowvars, localvars>>

\* line 157: the first transport attempt
ApiRequest ==
    /\ pc = "send"
    /\ \E o \in TransportOutcomes :
        /\ IF o.kind = "expired"
           THEN /\ pc' = "renew"
                /\ call' = [call EXCEPT !.attempts = Append(@, Attempt(o))]
                /\ UNCHANGED <<exc, response>>
           ELSE IF o.kind = "error"
           THEN /\ Raise(OtherError("ConnectionError"))
                /\ call' = [call EXCEPT !.attempts = Append(@, Attempt(o)),
                                        !.result = "raised"]
                /\ UNCHANGED response
           ELSE /\ pc' = "check"
                /\ response' = [status |-> o.status, body |-> o.body]
                /\ call' = [call EXCEPT !.attempts = Append(@, Attempt(o))]
                /\ UNCHANGED exc
    /\ UNCHANGED <<bufvars, outputs, authvars, rowvars, localvars>>

\* variant: a refresh token without a recorded expiry never expires
RefreshTokenExpiresAtUnbounded(e) ==
    IF e.has_refresh_expires_at THEN e.refresh_expires_at
    ELSE MaxClock + RefreshMargin + 1

\* lines 181-192: the refresh token's expiry, 0.0 when the variable is not set
RefreshTokenExpiresAt(e) ==
    IF e.has_refresh_expires_at THEN e.refresh_expires_at ELSE 0

\* line 194
RefreshTokenExpiresIn(e, t) == RefreshTokenExpiresAt(e) - t

\* variant: the margin compared with >=
UseRefreshGrantAtMargin(e, t) ==
    e.has_refresh_token /\ RefreshTokenExpiresIn(e, t) >= RefreshMargin

\* lines 203-204
UseRefreshGrant(e, t) ==
    e.has_refresh_token /\ RefreshTokenExpiresIn(e, t) > RefreshMargin

\* variant: the refresh token variables are written after either grant
PersistAllOnRefreshGrant(grant) ==
    <<"REFRESH_TOKEN", "REFRESH_TOKEN_EXPIRES_AT",
      "ACCESS_TOKEN", "ACCESS_TOKEN_TYPE", "ACCESS_TOKEN_EXPIRES_AT">>

\* the environment variable each set_env_var call of lines 219-246 writes, in
\* the order of the calls
PersistSteps(grant) ==
    IF grant = "full"
    THEN <<"REFRESH_TOKEN", "REFRESH_TOKEN_EXPIRES_AT",
           "ACCESS_TOKEN", "ACCESS_TOKEN_TYPE", "ACCESS_TOKEN_EXPIRES_AT">>
    ELSE <<"ACCESS_TOKEN", "ACCESS_TOKEN_TYPE", "ACCESS_TOKEN_EXPIRES_AT">>

\* the field of the granted token each set_env_var call is given
TokenField(tok, name) ==
    CASE name = "REFRESH_TOKEN" -> tok.refresh_token
      [] name = "REFRESH_TOKEN_EXPIRES_AT" -> tok.refresh_token_expires_at
      [] name = "ACCESS_TOKEN" -> tok.access_token
      [] name = "ACCESS_TOKEN_TYPE" -> tok.token_type
      [] name = "ACCESS_TOKEN_EXPIRES_AT" -> tok.expires_at

\* libraries.handle_file.set_env_var: sets the variable in os.environ and in
\* the .env file
SetEnvVar(e, name, value) ==
    CASE name = "REFRESH_TOKEN" ->
            [e EXCEPT !.has_refresh_token = TRUE, !.refresh_token = value]
      [] name = "REFRESH_TOKEN_EXPIRES_AT" ->
            [e EXCEPT !.has_refresh_expires_at = TRUE,
                      !.refresh_expires_at = value]
      [] name = "ACCESS_TOKEN" -> [e EXCEPT !.access_token = value]
      [] name = "ACCESS_TOKEN_TYPE" -> [e EXCEPT !.token_type = value]
      [] name = "ACCESS_TOKEN_EXPIRES_AT" ->
            [e EXCEPT !.access_expires_at = value]

\* variant: a rejected refresh-token grant falls back to the full grant
RenewFallsBackToFullGrant ==
    /\ pc = "renew"
    /\ \E t \in now..MaxClock, granted \in BOOLEAN :
        LET grant == IF UseRefreshGrant(env, t) THEN "refresh" ELSE "full"
            fallback == ~granted /\ grant = "refresh" IN
        /\ now' = t
        /\ IF (granted \/ fallback) /\ issued < MaxGrants
           THEN /\ issued' = issued + 1
                /\ token' = ServerToken(issued + 1, t)
                /\ session_token' = AccessToken(issued + 1)
                /\ to_persist' = PersistSteps(IF fallback THEN "full" ELSE grant)
                /\ pc' = "persist"
                /\ call' = [call EXCEPT
                              !.renewals = IF fallback THEN @ + 2 ELSE @ + 1,
                              !.grant = IF fallback THEN "full" ELSE grant,
                              !.rejected = fallback,
                              !.renew_time = t]
                /\ UNCHANGED exc
           ELSE /\ Raise(OtherError("AuthRenewalError"))
                /\ call' = [call EXCEPT !.renewals = @ + 1, !.grant = grant,
                                        !.renew_time = t, !.rejected = TRUE,
                                        !.result = "raised"]
                /\ UNCHANGED <<issued, token, session_token, to_persist>>
    /\ UNCHANGED <<bufvars, outputs, env, response, rowvars, localvars>>

\* lines 158-217: TokenExpiredError caught; the clock is read and a new access
\* token is requested with the refresh-token grant or the full grant.  The
\* token endpoint grants the request or rejects it (the exception leaves the
\* call).
Renew ==
    /\ pc = "renew"
    /\ \E t \in now..MaxClock, granted \in BOOLEAN :
        LET grant == IF UseRefreshGrant(env, t) THEN "refresh" ELSE "full" IN
        /\ now' = t
        /\ IF granted /\ issued < MaxGrants
           THEN /\ issued' = issued + 1
                /\ token' = ServerToken(issued + 1, t)
                /\ session_token' = AccessToken(issued + 1)
                /\ to_persist' = PersistSteps(grant)
                /\ pc' = "persist"
                /\ call' = [call EXCEPT !.renewals = @ + 1, !.grant = grant,
                                        !.renew_time = t]
                /\ UNCHANGED exc
           ELSE /\ Raise(OtherError("AuthRenewalError"))
                /\ call' = [call EXCEPT !.renewals = @ + 1, !.grant = grant,
                                        !.renew_time = t, !.rejected = TRUE,
                                        !.result = "raised"]
                /\ UNCHANGED <<issued, token, session_token, to_persist>>
    /\ UNCHANGED <<bufvars, outputs, env, response, rowvars, localvars>>

\* variant: a write failure is ignored and the next step is taken
PersistIgnoresFailure ==
    /\ pc = "persist"
    /\ to_persist # <<>>
    /\ \E written \in BOOLEAN :
        /\ env' = IF written
                  THEN SetEnvVar(env, Head(to_persist),
                                 TokenField(token, Head(to_persist)))
                  ELSE env
        /\ to_persist' = Tail(to_persist)
        /\ pc' = IF Tail(to_persist) = <<>> THEN "replay" ELSE "persist"
        /\ call' = [call EXCEPT !.persisted = IF written THEN @ + 1 ELSE @]
        /\ UNCHANGED exc
    /\ UNCHANGED <<bufvars, outputs, session_token, now, issued, token, response, rowvars,
                   localvars>>

\* lines 219-246: one set_env_var call; a write failure leaves the call
Persist ==
    /\ pc = "persist"
    /\ to_persist # <<>>
    /\ \E written \in BOOLEAN :
        IF written
        THEN /\ env' = SetEnvVar(env, Head(to_persist),
                                 TokenField(token, Head(to_persist)))
             /\ to_persist' = Tail(to_persist)
             /\ pc' = IF Tail(to_persist) = <<>> THEN "replay" ELSE "persist"
             /\ call' = [call EXCEPT !.persisted = @ + 1]
             /\ UNCHANGED exc
        ELSE /\ Raise(OtherError("StorageError"))
             /\ call' = [call EXCEPT !.result = "raised"]
             /\ UNCHANGED <<env, to_persist>>
    /\ UNCHANGED <<bufvars, outputs, session_token, now, issued, token, response, rowvars,
                   localvars>>

\* variant: a TokenExpiredError of the replay is renewed again
ReplayRenewsAgain ==
    /\ pc = "replay"
    /\ \E o \in TransportOutcomes :
        /\ IF o.kind = "response"
           THEN /\ pc' = "check"
                /\ response' = [status |-> o.status, body |-> o.body]
                /\ call' = [call EXCEPT !.attempts = Append(@, Attempt(o))]
                /\ UNCHANGED exc
           ELSE IF o.kind = "expired"
           THEN /\ pc' = "renew"
                /\ call' = [call EXCEPT !.attempts = Append(@, Attempt(o))]
                /\ UNCHANGED <<exc, response>>
           ELSE /\ Raise(OtherError("ConnectionError"))
                /\ call' = [call EXCEPT !.attempts = Append(@, Attempt(o)),
                                        !.result = "raised"]
                /\ UNCHANGED response
    /\ UNCHANGED <<bufvars, outputs, authvars, rowvars, localvars>>

\* line 248: the replay; it is inside the except clause, so a TokenExpiredError
\* raised here is not caught
Replay ==
    /\ pc = "replay"
    /\ \E o \in TransportOutcomes :
        /\ IF o.kind = "response"
           THEN /\ pc' = "check"
                /\ response' = [status |-> o.status, body |-> o.body]
                /\ call' = [call EXCEPT !.attempts = Append(@, Attempt(o))]
                /\ UNCHANGED exc
           ELSE /\ Raise(OtherError(IF o.kind = "expired"
                                    THEN "TokenExpiredError"
                                    ELSE "ConnectionError"))
                /\ call' = [call EXCEPT !.attempts = Append(@, Attempt(o)),
                                        !.result = "raised"]
                /\ UNCHANGED response
    /\ UNCHANGED <<bufvars, outputs, authvars, rowvars, localvars>>

\* libraries.api.log_response_and_raise_for_status: an HTTPError for a 4xx or
\* 5xx status
IsHTTPErrorStatus(s) == s >= 400 /\ s < 600

\* variant: a 5xx response is sent again instead of raised
RaiseForStatusRetriesServerError ==
    /\ pc = "check"
    /\ IF response.status \div 100 = 5 /\ Len(call.attempts) < 3
       THEN /\ pc' = IF Len(call.attempts) = 1 THEN "send" ELSE "replay"
            /\ UNCHANGED <<call, exc>>
       ELSE IF IsHTTPErrorStatus(response.status)
       THEN /\ Raise(HTTPError(response.status))
            /\ call' = [call EXCEPT !.result = "raised"]
       ELSE /\ pc' = "parse"
            /\ call' = [call EXCEPT !.result = "returned"]
            /\ UNCHANGED exc
    /\ UNCHANGED <<bufvars, outputs, response, authvars, rowvars, localvars>>

\* lines 250-251
RaiseForStatus ==
    /\ pc = "check"
    /\ IF IsHTTPErrorStatus(response.status)
       THEN /\ Raise(HTTPError(response.status))
            /\ call' = [call EXCEPT !.result = "raised"]
       ELSE /\ pc' = "parse"
            /\ call' = [call EXCEPT !.result = "returned"]
            /\ UNCHANGED exc
    /\ UNCHANGED <<bufvars, outputs, response, authvars, rowvars, localvars>>


\* ------------------------------------------------------------------------
\* WorldCatSearchBuffer
\* ------------------------------------------------------------------------

\* lines 893-912: process_records up to its request; the buffer must hold
\* exactly one record
BeginProcessRecords(buffer, first) ==
    IF Len(buffer) = 1
    THEN /\ pc' = "send"
         /\ call' = [NewCall(env) EXCEPT !.first = first]
         /\ response' = NoResponse
         /\ exc' = NoExc
    ELSE /\ Raise(AssertionError("Buffer must contain exactly one record"))
         /\ call' = NewCall(env)
         /\ response' = NoResponse

\* lines 913-950: the response is decoded and the row that owns the buffered
\* record is updated
ProcessResponse ==
    /\ pc = "parse"
    /\ LET row == record_list[1]
           body == response.body IN
        IF ~body.json
        THEN /\ Raise(JSONDecodeError)
             /\ UNCHANGED data
        ELSE IF body.n = 0
        THEN /\ Raise(AssertionError("No records found in WorldCat."))
             /\ UNCHANGED data
        ELSE /\ data' = IF body.n = 1
                        THEN [data EXCEPT ![row].oclc_num = {row}]
                        ELSE [data EXCEPT ![row].found_multiple = TRUE]
             /\ pc' = IF attempt = 1 THEN "finally" ELSE "retry_ok"
             /\ UNCHANGED exc
    /\ UNCHANGED <<bufvars, outputs, authvars, i, attempt, record_list, already, localvars,
                   response, call>>

\* ------------------------------------------------------------------------
\* search_worldcat.main: the loop over the rows
\* ------------------------------------------------------------------------

\* lines 132-156: the next row is taken; its MMS ID is validated and must be
\* new, the buffer must be empty, the row is added and processed
NextRow ==
    /\ pc = "loop"
    /\ i <= NumRows
    /\ error_occurred' = FALSE
    /\ consecutive_errors_occurred' = FALSE
    /\ error_msg' = NoMsg
    /\ attempt' = 1
    /\ \E mms_id \in MmsIds, valid \in BOOLEAN :
        IF ~valid
        THEN /\ Raise(AssertionError("Invalid MMS ID"))
             /\ call' = NewCall(env)
             /\ response' = NoResponse
             /\ UNCHANGED <<already, record_list>>
        ELSE IF mms_id \in already
        THEN /\ Raise(AssertionError("Record has already been processed"))
             /\ call' = NewCall(env)
             /\ response' = NoResponse
             /\ UNCHANGED <<already, record_list>>
        ELSE /\ already' = already \cup {mms_id}
             /\ IF Len(record_list) # 0
                THEN /\ Raise(AssertionError("Records buffer was not properly emptied"))
                     /\ call' = NewCall(env)
                     /\ response' = NoResponse
                     /\ UNCHANGED record_list
                ELSE /\ record_list' = Append(record_list, i)
                     /\ BeginProcessRecords(record_list', <<>>)
    /\ UNCHANGED <<bufvars, outputs, authvars, i, data>>

\* lines 157-160
ExceptAssertionError ==
    /\ pc = "except"
    /\ attempt = 1
    /\ exc.kind = "AssertionError"
    /\ error_msg' = AssertionMsg(exc)
    /\ error_occurred' = TRUE
    /\ exc' = NoExc
    /\ pc' = "finally"
    /\ UNCHANGED <<bufvars, outputs, authvars, rowvars, consecutive_errors_occurred, response,
                   call>>

\* variant: any HTTP error status starts the retry
IsClientOrServerError(status) == status \div 100 \in {4, 5}

\* line 177: str(http_status_code).startswith('5')
IsServerError(status) == status \div 100 = 5

\* lines 161-184: the first HTTP error; a 5xx status starts the one retry
ExceptHTTPError ==
    /\ pc = "except"
    /\ attempt = 1
    /\ exc.kind = "HTTPError"
    /\ error_msg' = HTTPMsg(exc)
    /\ error_occurred' = TRUE
    /\ IF IsServerError(exc.status)
       THEN /\ attempt' = 2
            /\ BeginProcessRecords(record_list,
                    <<[attempts |-> Len(call.attempts),
                       renewals |-> call.renewals, kind |-> exc.kind,
                       status_class |-> exc.status \div 100]>>)
       ELSE /\ exc' = NoExc
            /\ pc' = "finally"
            /\ UNCHANGED <<attempt, response, call>>
    /\ UNCHANGED <<bufvars, outputs, authvars, i, record_list, already, data,
                   consecutive_errors_occurred>>

\* variant: the error variables of the first failure are kept
RetrySucceededKeepsError ==
    /\ pc = "retry_ok"
    /\ pc' = "finally"
    /\ UNCHANGED <<bufvars, outputs, authvars, rowvars, localvars, exc, response, call>>

\* lines 186-189: the retry returned
RetrySucceeded ==
    /\ pc = "retry_ok"
    /\ error_msg' = NoMsg
    /\ error_occurred' = FALSE
    /\ pc' = "finally"
    /\ UNCHANGED <<bufvars, outputs, authvars, rowvars, consecutive_errors_occurred, exc,
                   response, call>>

\* variant: the message of the first failure is kept
ExceptSecondHTTPErrorKeepsFirst ==
    /\ pc = "except"
    /\ attempt = 2
    /\ exc.kind = "HTTPError"
    /\ error_occurred' = TRUE
    /\ consecutive_errors_occurred' = TRUE
    /\ exc' = NoExc
    /\ pc' = "finally"
    /\ UNCHANGED <<bufvars, outputs, authvars, rowvars, response, call, error_msg>>

\* variant: a 5xx failure of the retry starts another retry
ExceptSecondHTTPErrorRetries ==
    /\ pc = "except"
    /\ attempt = 2
    /\ exc.kind = "HTTPError"
    /\ error_msg' = HTTPMsg(exc)
    /\ error_occurred' = TRUE
    /\ IF IsServerError(exc.status)
       THEN /\ attempt' = 3
            /\ BeginProcessRecords(record_list, call.first)
            /\ UNCHANGED consecutive_errors_occurred
       ELSE /\ consecutive_errors_occurred' = TRUE
            /\ exc' = NoExc
            /\ pc' = "finally"
            /\ UNCHANGED <<attempt, response, call>>
    /\ UNCHANGED <<bufvars, outputs, authvars, i, record_list, already, data>>

\* lines 190-196: the retry raised an HTTPError
ExceptSecondHTTPError ==
    /\ pc = "except"
    /\ attempt = 2
    /\ exc.kind = "HTTPError"
    /\ error_msg' = HTTPMsg(exc)
    /\ error_occurred' = TRUE
    /\ consecutive_errors_occurred' = TRUE
    /\ exc' = NoExc
    /\ pc' = "finally"
    /\ UNCHANGED <<bufvars, outputs, authvars, rowvars, response, call>>

\* lines 179-196: the retry raised something else; the inner try has no clause
\* for it and the clauses of the outer try do not apply inside a handler, so
\* the exception propagates through the finally clause
RetryRaisedUncaught ==
    /\ pc = "except"
    /\ attempt = 2
    /\ exc.kind # "HTTPError"
    /\ pc' = "finally"
    /\ UNCHANGED <<bufvars, outputs, authvars, rowvars, localvars, exc, response, call>>

\* lines 197-200
ExceptJSONDecodeError ==
    /\ pc = "except"
    /\ attempt = 1
    /\ exc.kind = "JSONDecodeError"
    /\ error_msg' = JSONMsg(exc)
    /\ error_occurred' = TRUE
    /\ exc' = NoExc
    /\ pc' = "finally"
    /\ UNCHANGED <<bufvars, outputs, authvars, rowvars, consecutive_errors_occurred, response,
                   call>>

\* lines 201-204
ExceptException ==
    /\ pc = "except"
    /\ attempt = 1
    /\ exc.kind = "Exception"
    /\ error_msg' = OtherMsg(exc)
    /\ error_occurred' = TRUE
    /\ exc' = NoExc
    /\ pc' = "finally"
    /\ UNCHANGED <<bufvars, outputs, authvars, rowvars, consecutive_errors_occurred, response,
                   call>>

\* variant: consecutive errors do not leave the loop
FinallyWithoutBreak ==
    /\ pc = "finally"
    /\ data' = IF error_occurred
               THEN [data EXCEPT ![i].error = <<error_msg>>]
               ELSE data
    /\ record_list' = <<>>
    /\ IF exc # NoExc
       THEN pc' = "crashed" /\ UNCHANGED i
       ELSE pc' = "loop" /\ i' = i + 1
    /\ UNCHANGED <<bufvars, outputs, authvars, attempt, already, localvars, exc, response, call>>

\* variant: the finally clause never clears the buffer
FinallyKeepsRecords ==
    /\ pc = "finally"
    /\ data' = IF error_occurred
               THEN [data EXCEPT ![i].error = <<error_msg>>]
               ELSE data
    /\ IF consecutive_errors_occurred
       THEN /\ pc' = "after"
            /\ UNCHANGED <<record_list, i>>
       ELSE /\ UNCHANGED record_list
            /\ IF exc # NoExc
               THEN pc' = "crashed" /\ UNCHANGED i
               ELSE pc' = "loop" /\ i' = i + 1
    /\ UNCHANGED <<bufvars, outputs, authvars, attempt, already, localvars, exc, response, call>>

\* lines 205-224: the error is written to the row; after consecutive errors
\* the loop is left with the buffer as it is, otherwise the buffer is cleared
\* and a propagating exception leaves main
Finally ==
    /\ pc = "finally"
    /\ data' = IF error_occurred
               THEN [data EXCEPT ![i].error = <<error_msg>>]
               ELSE data
    /\ IF consecutive_errors_occurred
       THEN /\ pc' = "after"
            /\ UNCHANGED <<record_list, i>>
       ELSE /\ record_list' = <<>>
            /\ IF exc # NoExc
               THEN pc' = "crashed" /\ UNCHANGED i
               ELSE pc' = "loop" /\ i' = i + 1
    /\ UNCHANGED <<bufvars, outputs, authvars, attempt, already, localvars, exc, response, call>>

\* line 132: the rows are exhausted
LoopExit ==
    /\ pc = "loop"
    /\ i > NumRows
    /\ pc' = "after"
    /\ UNCHANGED <<bufvars, outputs, authvars, rowvars, localvars, exc, response, call>>

\* lines 229-255: the rows of the DataFrame that each output file receives
\* (dropna keeps the rows where the named column, or one of them, is set)
RecordsWithOclcNum == {r \in Rows : data[r].oclc_num # {}}
RecordsWithZeroOrMultipleWorldcatMatches ==
    {r \in Rows : data[r].num_records_held_by # {} \/ data[r].num_records_total # {}}
RecordsWithErrors == {r \in Rows : data[r].error # <<>>}

\* lines 271-274
TotalRecordsInOutputFiles ==
    Cardinality(RecordsWithOclcNum)
    + Cardinality(RecordsWithZeroOrMultipleWorldcatMatches)
    + Cardinality(RecordsWithErrors)

\* line 283: assert len(data.index) == total_records_in_output_files
FinalAssertion ==
    IF NumRows = TotalRecordsInOutputFiles THEN "passed" ELSE "failed"

\* lines 226-285: the output files are written, the totals are logged and the
\* final assertion is evaluated (the log statement of lines 262-269 reads
\* counters of the driver's buffer class and is taken to succeed)
Finish ==
    /\ pc = "after"
    /\ pc' = "done"
    /\ outputs' =
        [records_with_oclc_num |-> RecordsWithOclcNum,
         records_with_zero_or_multiple_worldcat_matches |->
             RecordsWithZeroOrMultipleWorldcatMatches,
         records_with_errors |-> RecordsWithErrors,
         total_records_in_output_files |-> TotalRecordsInOutputFiles,
         assertion |-> FinalAssertion]
    /\ UNCHANGED <<bufvars, authvars, rowvars, localvars, exc, response, call>>

Next ==
    \/ NextRow
    \/ ApiRequest
    \/ Renew
    \/ Persist
    \/ Replay
    \/ RaiseForStatus
    \/ ProcessResponse
    \/ ExceptAssertionError
    \/ ExceptHTTPError
    \/ RetrySucceeded
    \/ ExceptSecondHTTPError
    \/ RetryRaisedUncaught
    \/ ExceptJSONDecodeError
    \/ ExceptException
    \/ Finally
    \/ LoopExit
    \/ Finish

Spec == Init /\ [][Next]_vars


\* ------------------------------------------------------------------------
\* The three buffer classes, operation by operation
\* ------------------------------------------------------------------------

\* the variables of the driver that no buffer operation touches
drivervars ==
    <<env, session_token, now, issued, pc, i, attempt, already,
      error_occurred, consecutive_errors_occurred, error_msg, exc, response,
      token, to_persist, call, outputs>>

BufferClasses == {"AlmaRecordsBuffer", "WorldCatRecordsBuffer", "WorldCatSearchBuffer"}

\* the file objects a constructor receives
FileNames(class) ==
    IF class = "AlmaRecordsBuffer"
    THEN {"records_with_current_oclc_num", "records_with_old_oclc_num",
          "records_with_errors"}
    ELSE IF class = "WorldCatRecordsBuffer"
    THEN {"records_with_no_update_needed", "records_updated",
          "records_with_errors"}
    ELSE {}

\* the keys of the results dictionary process_records increments
Counters(class) ==
    IF class = "AlmaRecordsBuffer"
    THEN {"num_records_with_current_oclc_num", "num_records_with_old_oclc_num",
          "num_records_with_errors"}
    ELSE IF class = "WorldCatRecordsBuffer"
    THEN {"num_records_updated", "num_records_with_no_update_needed",
          "num_records_with_errors"}
    ELSE {}

\* a buffer object after its constructor, with empty output files and a
\* results dictionary of zeros; of each file the model keeps the kind of
\* every line ("header" or "row"), and of the lines the last operation
\* appended their cells as well (last.written)
InitBuffers ==
    /\ env \in {e \in InitEnvs : ~e.has_refresh_token /\ ~e.has_refresh_expires_at}
    /\ session_token = env.access_token
    /\ now = 1
    /\ issued = 0
    /\ pc = "loop"
    /\ i = 1
    /\ attempt = 1
    /\ record_list = <<>>
    /\ already = {}
    /\ error_occurred = FALSE
    /\ consecutive_errors_occurred = FALSE
    /\ error_msg = NoMsg
    /\ exc = NoExc
    /\ response = NoResponse
    /\ token = NoToken
    /\ to_persist = <<>>
    /\ call = NewCall(env)
    /\ outputs = NoOutputs
    /\ buffer_class \in BufferClasses
    /\ IF buffer_class = "WorldCatSearchBuffer"
       THEN \E ids \in RowInputs : data = [r \in Rows |-> NewRow(ids)]
       ELSE data = [r \in Rows |-> EmptyRow]
    /\ IF buffer_class = "WorldCatRecordsBuffer"
       THEN set_or_unset_choice \in {"set", "unset"} /\ cascade \in {"0", "1"}
       ELSE set_or_unset_choice = "" /\ cascade = ""
    /\ oclc_num_dict = <<>>
    /\ oclc_num_set = {}
    /\ add_order = <<>>
    /\ files = [f \in FileNames(buffer_class) |-> <<>>]
    /\ results = [k \in Counters(buffer_class) |-> 0]
    /\ last = NoLast

\* the state an operation starts from
Before ==
    [oclc_num_dict |-> oclc_num_dict, oclc_num_set |-> oclc_num_set,
     record_list |-> record_list, data |-> data, files |-> files,
     results |-> results]

Operation(op, arg, raised) ==
    [op |-> op, arg |-> arg, raised |-> raised, before |-> Before,
     request |-> NoRequest, body |-> <<>>, entries |-> <<>>,
     written |-> [f \in DOMAIN files |-> <<>>], transaction_id |-> "",
     api_url |-> ""]

\* variant: add overwrites the entry of an OCLC number already in the buffer
AlmaAddOverwrites ==
    /\ buffer_class = "AlmaRecordsBuffer"
    /\ \E orig_oclc_num \in OclcNums, mms_id \in AlmaMmsIds :
        /\ oclc_num_dict' =
            [o \in DOMAIN oclc_num_dict \cup {orig_oclc_num} |->
                IF o = orig_oclc_num THEN mms_id ELSE oclc_num_dict[o]]
        /\ add_order' = Append(add_order, orig_oclc_num)
        /\ last' = Operation("add", <<orig_oclc_num, mms_id>>, NoExc)
    /\ UNCHANGED <<drivervars, record_list, data, buffer_class,
                   set_or_unset_choice, cascade, oclc_num_set, files, results>>

\* AlmaRecordsBuffer.add, lines 343-363
AlmaAdd ==
    /\ buffer_class = "AlmaRecordsBuffer"
    /\ \E orig_oclc_num \in OclcNums, mms_id \in AlmaMmsIds :
        IF orig_oclc_num \in DOMAIN oclc_num_dict
        THEN /\ last' = Operation("add", <<orig_oclc_num, mms_id>>,
                            AssertionError("already exists in records buffer"))
             /\ UNCHANGED <<oclc_num_dict, add_order>>
        ELSE /\ oclc_num_dict' =
                [o \in DOMAIN oclc_num_dict \cup {orig_oclc_num} |->
                    IF o = orig_oclc_num THEN mms_id ELSE oclc_num_dict[o]]
             /\ add_order' = Append(add_order, orig_oclc_num)
             /\ last' = Operation("add", <<orig_oclc_num, mms_id>>, NoExc)
    /\ UNCHANGED <<drivervars, record_list, data, buffer_class,
                   set_or_unset_choice, cascade, oclc_num_set, files, results>>

\* AlmaRecordsBuffer.remove_all_records, lines 481-486
AlmaRemoveAllRecords ==
    /\ buffer_class = "AlmaRecordsBuffer"
    /\ oclc_num_dict' = <<>>
    /\ add_order' = <<>>
    /\ last' = Operation("remove_all_records", <<>>, NoExc)
    /\ UNCHANGED <<drivervars, record_list, data, buffer_class,
                   set_or_unset_choice, cascade, oclc_num_set, files, results>>

\* WorldCatRecordsBuffer.add, lines 607-624
WorldCatAdd ==
    /\ buffer_class = "WorldCatRecordsBuffer"
    /\ \E oclc_num \in OclcNums :
        IF oclc_num \in oclc_num_set
        THEN /\ last' = Operation("add", <<oclc_num>>,
                            AssertionError("already exists in records buffer"))
             /\ UNCHANGED <<oclc_num_set, add_order>>
        ELSE /\ oclc_num_set' = oclc_num_set \cup {oclc_num}
             /\ add_order' = Append(add_order, oclc_num)
             /\ last' = Operation("add", <<oclc_num>>, NoExc)
    /\ UNCHANGED <<drivervars, record_list, data, buffer_class,
                   set_or_unset_choice, cascade, oclc_num_dict, files, results>>

\* WorldCatRecordsBuffer.remove_all_records, lines 776-781
WorldCatRemoveAllRecords ==
    /\ buffer_class = "WorldCatRecordsBuffer"
    /\ oclc_num_set' = {}
    /\ add_order' = <<>>
    /\ last' = Operation("remove_all_records", <<>>, NoExc)
    /\ UNCHANGED <<drivervars, record_list, data, buffer_class,
                   set_or_unset_choice, cascade, oclc_num_dict, files, results>>

\* ---- process_records ----

\* what make_api_request can raise to process_records
CallFailures ==
    {HTTPError(st) : st \in Statuses \ {200}} \cup {OtherError("ConnectionError")}

\* variant: the handler of an undecodable response body swallows the failure
DecodeFailureSwallowed == NoExc

\* lines 469-477, 764-772, 942-950: the handler of the JSONDecodeError that
\* response.json() raises logs it and raises it again
DecodeFailure == JSONDecodeError

SeqsUpTo(S, n) == UNION {[1..k -> S] : k \in 0..n}

RECURSIVE SumOf(_, _)
SumOf(f, S) ==
    IF S = {} THEN 0
    ELSE LET k == CHOOSE x \in S : TRUE IN f[k] + SumOf(f, S \ {k})

\* the entries read so far from the responses, over the life of the buffer
EntriesRead == SumOf(results, DOMAIN results)

\* the state of the loop over json_response['entry']
LoopState ==
    [files |-> files, results |-> results, raised |-> NoExc,
     entries |-> <<>>, written |-> [f \in DOMAIN files |-> <<>>]]

\* one cell of a CSV row: the text parts it is formatted from
Cell(t) == <<t>>

\* variant: the counter is incremented by two
WriteRowCountsTwice(st, file, counter, header, row) ==
    [st EXCEPT !.results[counter] = @ + 2,
               !.files[file] = (IF @ = <<>> THEN <<"header">> ELSE @) \o <<"row">>,
               !.written[file] =
                   @ \o (IF st.files[file] = <<>> THEN <<header>> ELSE <<>>)
                     \o <<row>>]

\* variant: the header row is written before every row
WriteRowWithHeader(st, file, counter, header, row) ==
    [st EXCEPT !.results[counter] = @ + 1,
               !.files[file] = @ \o <<"header", "row">>,
               !.written[file] = @ \o <<header, row>>]

\* results[counter] += 1; the header row if file.tell() == 0; the row
\* (lines 419-435, 437-450, 452-467, 704-720, 722-739, 746-762)
WriteRow(st, file, counter, header, row) ==
    [st EXCEPT !.results[counter] = @ + 1,
               !.files[file] = (IF @ = <<>> THEN <<"header">> ELSE @) \o <<"row">>,
               !.written[file] =
                   @ \o (IF st.files[file] = <<>> THEN <<header>> ELSE <<>>)
                     \o <<row>>]

\* the entries of a 'Get Current OCLC Number' response: the current number
\* differs from the requested one exactly when the entry is marked merged
AlmaEntries ==
    {e \in [requestedOclcNumber : OclcNums, currentOclcNumber : OclcNums,
            found : BOOLEAN, merged : BOOLEAN] :
        e.merged <=> e.currentOclcNumber # e.requestedOclcNumber}

AlmaErrorMsg == "Problem with Get Current OCLC Number API response"

\* variant: an entry that is found goes to the Current file and, when merged,
\* to the Old file as well
AlmaClassifyTwice(st, record) ==
    IF record.requestedOclcNumber \notin DOMAIN oclc_num_dict
    THEN [st EXCEPT !.raised = OtherError("KeyError")]
    ELSE LET mms_id == oclc_num_dict[record.requestedOclcNumber]
             cur == WriteRow(st, "records_with_current_oclc_num",
                        "num_records_with_current_oclc_num",
                        <<Cell("MMS ID"), Cell("Current OCLC Number")>>,
                        <<Cell(mms_id), Cell(record.currentOclcNumber)>>) IN
        IF ~record.found
        THEN WriteRow(st, "records_with_errors", "num_records_with_errors",
                 <<Cell("MMS ID"), Cell("OCLC Number"), Cell("Error")>>,
                 <<Cell(mms_id), Cell(record.requestedOclcNumber),
                   <<AlmaErrorMsg, ": OCLC number not found">>>>)
        ELSE IF ~record.merged
        THEN cur
        ELSE WriteRow(cur, "records_with_old_oclc_num",
                 "num_records_with_old_oclc_num",
                 <<Cell("MMS ID"), Cell("Current OCLC Number"),
                   Cell("Original OCLC Number")>>,
                 <<Cell(mms_id), Cell(record.currentOclcNumber),
                   Cell(record.requestedOclcNumber)>>)

\* variant: the merged field is tested before the found field
AlmaClassifyMergedFirst(st, record) ==
    IF record.requestedOclcNumber \notin DOMAIN oclc_num_dict
    THEN [st EXCEPT !.raised = OtherError("KeyError")]
    ELSE LET mms_id == oclc_num_dict[record.requestedOclcNumber] IN
        IF record.merged
        THEN WriteRow(st, "records_with_old_oclc_num",
                 "num_records_with_old_oclc_num",
                 <<Cell("MMS ID"), Cell("Current OCLC Number"),
                   Cell("Original OCLC Number")>>,
                 <<Cell(mms_id), Cell(record.currentOclcNumber),
                   Cell(record.requestedOclcNumber)>>)
        ELSE IF ~record.found
        THEN WriteRow(st, "records_with_errors", "num_records_with_errors",
                 <<Cell("MMS ID"), Cell("OCLC Number"), Cell("Error")>>,
                 <<Cell(mms_id), Cell(record.requestedOclcNumber),
                   <<AlmaErrorMsg, ": OCLC number not found">>>>)
        ELSE WriteRow(st, "records_with_current_oclc_num",
                 "num_records_with_current_oclc_num",
                 <<Cell("MMS ID"), Cell("Current OCLC Number")>>,
                 <<Cell(mms_id), Cell(record.currentOclcNumber)>>)

\* lines 405-468: one entry of the response
AlmaClassify(st, record) ==
    LET found_requested_oclc_num == record.found
        is_current_oclc_num == ~record.merged IN
    IF record.requestedOclcNumber \notin DOMAIN oclc_num_dict
    THEN [st EXCEPT !.raised = OtherError("KeyError")]
    ELSE LET mms_id == oclc_num_dict[record.requestedOclcNumber] IN
        IF ~found_requested_oclc_num
        THEN WriteRow(st, "records_with_errors", "num_records_with_errors",
                 <<Cell("MMS ID"), Cell("OCLC Number"), Cell("Error")>>,
                 <<Cell(mms_id), Cell(record.requestedOclcNumber),
                   <<AlmaErrorMsg, ": OCLC number not found">>>>)
        ELSE IF is_current_oclc_num
        THEN WriteRow(st, "records_with_current_oclc_num",
                 "num_records_with_current_oclc_num",
                 <<Cell("MMS ID"), Cell("Current OCLC Number")>>,
                 <<Cell(mms_id), Cell(record.currentOclcNumber)>>)
        ELSE WriteRow(st, "records_with_old_oclc_num",
                 "num_records_with_old_oclc_num",
                 <<Cell("MMS ID"), Cell("Current OCLC Number"),
                   Cell("Original OCLC Number")>>,
                 <<Cell(mms_id), Cell(record.currentOclcNumber),
                   Cell(record.requestedOclcNumber)>>)

\* lines 403-404: the loop over the entries, left at the first exception
RECURSIVE AlmaLoop(_, _)
AlmaLoop(st, entries) ==
    IF entries = <<>> \/ st.raised # NoExc THEN st
    ELSE AlmaLoop(AlmaClassify([st EXCEPT !.entries = Append(@, Head(entries))],
                               Head(entries)),
                  Tail(entries))

\* variant: process_records empties the dictionary once the response is read
AlmaProcessRecordsClears ==
    /\ buffer_class = "AlmaRecordsBuffer"
    /\ \E entries \in SeqsUpTo(AlmaEntries, MaxEntries - EntriesRead) :
        \E st \in {AlmaLoop(LoopState, entries)} :
        /\ files' = st.files
        /\ results' = st.results
        /\ oclc_num_dict' = <<>>
        /\ add_order' = <<>>
        /\ last' = [Operation("process_records", <<>>, st.raised) EXCEPT
                        !.request = [method |-> "GET",
                                     oclcNumbers |-> DOMAIN oclc_num_dict,
                                     cascade |-> <<>>, q |-> <<>>,
                                     heldBySymbol |-> <<>>],
                        !.entries = st.entries,
                            !.written = st.written]
    /\ UNCHANGED <<drivervars, record_list, data, buffer_class,
                   set_or_unset_choice, cascade, oclc_num_set>>

\* AlmaRecordsBuffer.process_records, lines 365-479
AlmaProcessRecords ==
    /\ buffer_class = "AlmaRecordsBuffer"
    /\ LET request == [method |-> "GET", oclcNumbers |-> DOMAIN oclc_num_dict,
                       cascade |-> <<>>, q |-> <<>>, heldBySymbol |-> <<>>] IN
       \/ \E failure \in CallFailures :
            /\ last' = [Operation("process_records", <<>>, failure) EXCEPT
                            !.request = request]
            /\ UNCHANGED <<files, results>>
       \/ /\ last' = [Operation("process_records", <<>>, DecodeFailure) EXCEPT
                            !.request = request, !.body = <<NoBody>>]
          /\ UNCHANGED <<files, results>>
       \/ \E entries \in SeqsUpTo(AlmaEntries, MaxEntries - EntriesRead) :
            \E st \in {AlmaLoop(LoopState, entries)} :
            /\ files' = st.files
            /\ results' = st.results
            /\ last' = [Operation("process_records", <<>>, st.raised) EXCEPT
                            !.request = request,
                            !.body = <<[json |-> TRUE, n |-> Len(entries)]>>,
                            !.entries = st.entries, !.written = st.written]
    /\ UNCHANGED <<drivervars, record_list, data, buffer_class, add_order,
                   set_or_unset_choice, cascade, oclc_num_dict, oclc_num_set>>

\* the entries of a 'Set Holding' / 'Unset Holding' response
WorldCatEntries ==
    [requestedOclcNumber : OclcNums, currentOclcNumber : OclcNums,
     httpStatusCode : {"HTTP 200 OK", "HTTP 409 Conflict", "HTTP 400 Bad Request"},
     errorDetail : {"errorDetail"}]

\* lines 652-658
ApiName == IF set_or_unset_choice = "set" THEN "Set Holding API" ELSE "Unset Holding API"
ApiResponseErrorMsg == <<"Problem with ", ApiName, " response">>

\* variant: a conflict is written to the Updated file as well
WorldCatClassifyConflictTwice(st, record) ==
    LET header(t) == <<Cell("Requested OCLC Number"),
                       Cell("New OCLC Number (if applicable)"), Cell(t)>>
        row == <<Cell(record.requestedOclcNumber), Cell(""), <<>>>>
        updated == WriteRow(st, "records_updated", "num_records_updated",
                       header("Warning"), row) IN
    IF record.httpStatusCode = "HTTP 200 OK"
    THEN updated
    ELSE IF record.httpStatusCode = "HTTP 409 Conflict"
    THEN WriteRow(updated, "records_with_no_update_needed",
             "num_records_with_no_update_needed", header("Error"), row)
    ELSE WriteRow(st, "records_with_errors", "num_records_with_errors",
             header("Error"), row)

\* variant: an update whose number has changed is written as an error
WorldCatClassifyByCurrentNumber(st, record) ==
    LET is_current_oclc_num ==
            record.requestedOclcNumber = record.currentOclcNumber
        new_oclc_num ==
            IF ~is_current_oclc_num THEN record.currentOclcNumber ELSE ""
        oclc_num_msg ==
            IF ~is_current_oclc_num
            THEN <<"Warning: ", "OCLC number ", record.requestedOclcNumber,
                   " has been updated to ", new_oclc_num,
                   ". Consider updating Alma record.">>
            ELSE <<>> IN
    IF record.httpStatusCode = "HTTP 200 OK" /\ is_current_oclc_num
    THEN WriteRow(st, "records_updated", "num_records_updated",
             <<Cell("Requested OCLC Number"),
               Cell("New OCLC Number (if applicable)"), Cell("Warning")>>,
             <<Cell(record.requestedOclcNumber), Cell(new_oclc_num),
               oclc_num_msg>>)
    ELSE IF record.httpStatusCode = "HTTP 409 Conflict"
    THEN WriteRow(st, "records_with_no_update_needed",
             "num_records_with_no_update_needed",
             <<Cell("Requested OCLC Number"),
               Cell("New OCLC Number (if applicable)"), Cell("Error")>>,
             <<Cell(record.requestedOclcNumber), Cell(new_oclc_num),
               ApiResponseErrorMsg \o <<": ", record.errorDetail, ". ">>
                   \o oclc_num_msg>>)
    ELSE WriteRow(st, "records_with_errors", "num_records_with_errors",
             <<Cell("Requested OCLC Number"),
               Cell("New OCLC Number (if applicable)"), Cell("Error")>>,
             <<Cell(record.requestedOclcNumber), Cell(new_oclc_num),
               ApiResponseErrorMsg
                   \o <<": ", record.httpStatusCode, ": ", record.errorDetail, ". ">>
                   \o oclc_num_msg>>)

\* lines 684-763: one entry of the response
WorldCatClassify(st, record) ==
    LET is_current_oclc_num ==
            record.requestedOclcNumber = record.currentOclcNumber
        new_oclc_num ==
            IF ~is_current_oclc_num THEN record.currentOclcNumber ELSE ""
        oclc_num_msg ==
            IF ~is_current_oclc_num
            THEN <<"Warning: ", "OCLC number ", record.requestedOclcNumber,
                   " has been updated to ", new_oclc_num,
                   ". Consider updating Alma record.">>
            ELSE <<>> IN
    IF record.httpStatusCode = "HTTP 200 OK"
    THEN WriteRow(st, "records_updated", "num_records_updated",
             <<Cell("Requested OCLC Number"),
               Cell("New OCLC Number (if applicable)"), Cell("Warning")>>,
             <<Cell(record.requestedOclcNumber), Cell(new_oclc_num),
               oclc_num_msg>>)
    ELSE IF record.httpStatusCode = "HTTP 409 Conflict"
    THEN WriteRow(st, "records_with_no_update_needed",
             "num_records_with_no_update_needed",
             <<Cell("Requested OCLC Number"),
               Cell("New OCLC Number (if applicable)"), Cell("Error")>>,
             <<Cell(record.requestedOclcNumber), Cell(new_oclc_num),
               ApiResponseErrorMsg \o <<": ", record.errorDetail, ". ">>
                   \o oclc_num_msg>>)
    ELSE WriteRow(st, "records_with_errors", "num_records_with_errors",
             <<Cell("Requested OCLC Number"),
               Cell("New OCLC Number (if applicable)"), Cell("Error")>>,
             <<Cell(record.requestedOclcNumber), Cell(new_oclc_num),
               ApiResponseErrorMsg
                   \o <<": ", record.httpStatusCode, ": ", record.errorDetail, ". ">>
                   \o oclc_num_msg>>)

\* variant: the entries are classified last to first
RECURSIVE WorldCatLoopLastFirst(_, _)
WorldCatLoopLastFirst(st, entries) ==
    IF entries = <<>> THEN st
    ELSE LET rest == WorldCatLoopLastFirst(st, Tail(entries)) IN
         WorldCatClassify([rest EXCEPT !.entries = <<Head(entries)>> \o @],
                          Head(entries))

\* lines 682-683: the loop over the entries
RECURSIVE WorldCatLoop(_, _)
WorldCatLoop(st, entries) ==
    IF entries = <<>> \/ st.raised # NoExc THEN st
    ELSE WorldCatLoop(WorldCatClassify([st EXCEPT !.entries = Append(@, Head(entries))],
                                       Head(entries)),
                      Tail(entries))

\* variant: the cascade parameter is appended for both methods
WorldCatRequestAlwaysCascade ==
    [method |-> IF set_or_unset_choice = "set" THEN "POST" ELSE "DELETE",
     oclcNumbers |-> oclc_num_set, cascade |-> <<cascade>>, q |-> <<>>,
     heldBySymbol |-> <<>>]

\* lines 660-677: POST for 'set'; DELETE with the cascade parameter otherwise
WorldCatRequest ==
    IF set_or_unset_choice = "set"
    THEN [method |-> "POST", oclcNumbers |-> oclc_num_set, cascade |-> <<>>,
          q |-> <<>>, heldBySymbol |-> <<>>]
    ELSE [method |-> "DELETE", oclcNumbers |-> oclc_num_set,
          cascade |-> <<cascade>>, q |-> <<>>, heldBySymbol |-> <<>>]

\* WorldCatRecordsBuffer.process_records, lines 626-774
WorldCatProcessRecords ==
    /\ buffer_class = "WorldCatRecordsBuffer"
    /\ \/ \E failure \in CallFailures :
            /\ last' = [Operation("process_records", <<>>, failure) EXCEPT
                            !.request = WorldCatRequest]
            /\ UNCHANGED <<files, results>>
       \/ /\ last' = [Operation("process_records", <<>>, DecodeFailure) EXCEPT
                            !.request = WorldCatRequest, !.body = <<NoBody>>]
          /\ UNCHANGED <<files, results>>
       \/ \E entries \in SeqsUpTo(WorldCatEntries, MaxEntries - EntriesRead) :
            \E st \in {WorldCatLoop(LoopState, entries)} :
            /\ files' = st.files
            /\ results' = st.results
            /\ last' = [Operation("process_records", <<>>, st.raised) EXCEPT
                            !.request = WorldCatRequest,
                            !.body = <<[json |-> TRUE, n |-> Len(entries)]>>,
                            !.entries = st.entries, !.written = st.written]
    /\ UNCHANGED <<drivervars, record_list, data, buffer_class, add_order,
                   set_or_unset_choice, cascade, oclc_num_dict, oclc_num_set>>

\* lines 902-906: the search request, "?q=nl:{lccn}&heldBySymbol={symbol}";
\* the argument of process_records is not read
SearchRequest(row, results_arg) ==
    [method |-> "GET", oclcNumbers |-> {}, cascade |-> <<>>,
     q |-> <<"nl", data[row].lccn>>,
     heldBySymbol |-> <<"OCLC_INSTITUTION_SYMBOL">>]

\* variant: the first of several matches is taken as the OCLC number
SearchResultTakesFirst(row, n) == [data EXCEPT ![row].oclc_num = {row}]

\* lines 920-941: one match is the OCLC number of the row; several matches
\* mark the row
SearchResult(row, n) ==
    IF n = 1
    THEN [data EXCEPT ![row].oclc_num = {row}]
    ELSE [data EXCEPT ![row].found_multiple = TRUE]

\* WorldCatSearchBuffer.process_records, lines 867-952, with the request and
\* its response in one step; results_arg is its parameter results
SearchProcessRecords ==
    /\ buffer_class = "WorldCatSearchBuffer"
    /\ \E results_arg \in BOOLEAN :
       IF Len(record_list) # 1
       THEN /\ last' = Operation("process_records", <<results_arg>>,
                           AssertionError("Buffer must contain exactly one record"))
            /\ UNCHANGED data
       ELSE LET row == record_list[1]
                request == SearchRequest(row, results_arg) IN
            \/ \E failure \in CallFailures :
                /\ last' = [Operation("process_records", <<results_arg>>, failure) EXCEPT
                                !.request = request]
                /\ UNCHANGED data
            \/ /\ last' = [Operation("process_records", <<results_arg>>, DecodeFailure)
                                EXCEPT !.request = request, !.body = <<NoBody>>]
               /\ UNCHANGED data
            \/ \E n \in 0..2 :
                LET body == <<[json |-> TRUE, n |-> n]>> IN
                IF n = 0
                THEN /\ last' = [Operation("process_records", <<results_arg>>,
                                     AssertionError("No records found in WorldCat."))
                                    EXCEPT !.request = request, !.body = body]
                     /\ UNCHANGED data
                ELSE /\ data' = SearchResult(row, n)
                     /\ last' = [Operation("process_records", <<results_arg>>, NoExc)
                                    EXCEPT !.request = request, !.body = body]
    /\ UNCHANGED <<drivervars, record_list, buffer_class, add_order, set_or_unset_choice,
                   cascade, oclc_num_dict, oclc_num_set, files, results>>

\* variant: add appends whatever the buffer holds
SearchAddAppends ==
    /\ buffer_class = "WorldCatSearchBuffer"
    /\ \E record_data \in Rows :
        /\ Len(record_list) < 2
        /\ record_list' = Append(record_list, record_data)
        /\ last' = Operation("add", <<record_data>>, NoExc)
    /\ UNCHANGED <<drivervars, data, buffer_class, add_order, set_or_unset_choice,
                   cascade, oclc_num_dict, oclc_num_set, files, results>>

\* WorldCatSearchBuffer.add, lines 845-865
SearchAdd ==
    /\ buffer_class = "WorldCatSearchBuffer"
    /\ \E record_data \in Rows :
        IF Len(record_list) # 0
        THEN /\ last' = Operation("add", <<record_data>>,
                            AssertionError("Cannot add to a non-empty WorldCatSearchBuffer."))
             /\ UNCHANGED record_list
        ELSE /\ record_list' = Append(record_list, record_data)
             /\ last' = Operation("add", <<record_data>>, NoExc)
    /\ UNCHANGED <<drivervars, data, buffer_class, add_order, set_or_unset_choice,
                   cascade, oclc_num_dict, oclc_num_set, files, results>>

\* WorldCatSearchBuffer.remove_all_records, lines 954-959
SearchRemoveAllRecords ==
    /\ buffer_class = "WorldCatSearchBuffer"
    /\ record_list' = <<>>
    /\ last' = Operation("remove_all_records", <<>>, NoExc)
    /\ UNCHANGED <<drivervars, data, buffer_class, add_order, set_or_unset_choice,
                   cascade, oclc_num_dict, oclc_num_set, files, results>>

BuffersNext ==
    \/ AlmaAdd
    \/ AlmaProcessRecords
    \/ AlmaRemoveAllRecords
    \/ WorldCatAdd
    \/ WorldCatProcessRecords
    \/ WorldCatRemoveAllRecords
    \/ SearchAdd
    \/ SearchProcessRecords
    \/ SearchRemoveAllRecords

\* any sequence of operations on a buffer of one of the three classes
SpecBuffers == InitBuffers /\ [][BuffersNext]_vars

\* ---- get_transaction_id ----

\* the identity variables of the environment: absent, empty or set
IdentityEnvs ==
    {[e EXCEPT !.has_institution_symbol = hs, !.institution_symbol = sym,
               !.has_principal_id = hp, !.principal_id = pid] :
        e \in {e \in InitEnvs : ~e.has_refresh_token /\ ~e.has_refresh_expires_at},
        hs \in BOOLEAN, sym \in {"", "SYM"}, hp \in BOOLEAN, pid \in {"", "PID"}}

\* the URLs process_records hands to make_api_request
ApiUrls == {"https://worldcat/brief-bibs?q=nl:lccn", "https://worldcat/ih/datalist?oclcNumbers=ocm1"}

\* os.getenv(name, '') of the two identity variables
InstitutionSymbol(e) == IF e.has_institution_symbol THEN e.institution_symbol ELSE ""
PrincipalId(e) == IF e.has_principal_id THEN e.principal_id ELSE ""

\* line 119: time.strftime('%Y-%m-%dT%H:%M:%SZ', time.gmtime()), t seconds
\* after the epoch (t < 10)
Strftime(t) == "1970-01-01T00:00:0" \o ToString(t) \o "Z"

\* variant: the separator after the institution symbol is always written
GetTransactionIdAlwaysSeparator(e, t) ==
    IF e.has_institution_symbol \/ e.has_principal_id
    THEN InstitutionSymbol(e) \o "_" \o Strftime(t)
         \o (IF e.has_principal_id THEN "_" \o PrincipalId(e) ELSE "")
    ELSE ""

\* RecordsBuffer.get_transaction_id, lines 100-126
GetTransactionId(e, t) ==
    IF e.has_institution_symbol \/ e.has_principal_id
    THEN (IF InstitutionSymbol(e) # "" THEN InstitutionSymbol(e) \o "_" ELSE "")
         \o Strftime(t)
         \o (IF e.has_principal_id THEN "_" \o PrincipalId(e) ELSE "")
    ELSE ""

\* lines 149-150
WithTransactionId(api_url, transaction_id) ==
    IF transaction_id # ""
    THEN api_url \o "&transactionID=" \o transaction_id
    ELSE api_url

\* a call of get_transaction_id
GetTransactionIdCall ==
    /\ last' = [Operation("get_transaction_id", <<>>, NoExc) EXCEPT
                    !.transaction_id = GetTransactionId(env, now)]
    /\ UNCHANGED <<drivervars, record_list, data, buffer_class, add_order,
                   set_or_unset_choice, cascade, oclc_num_dict, oclc_num_set,
                   files, results>>

\* the first statements of make_api_request, lines 147-150: the URL that is
\* requested
MakeApiRequestUrl ==
    /\ \E api_url \in ApiUrls :
        \E transaction_id \in {GetTransactionId(env, now)} :
        last' = [Operation("make_api_request", <<api_url>>, NoExc) EXCEPT
                    !.transaction_id = transaction_id,
                    !.api_url = WithTransactionId(api_url, transaction_id)]
    /\ UNCHANGED <<drivervars, record_list, data, buffer_class, add_order,
                   set_or_unset_choice, cascade, oclc_num_dict, oclc_num_set,
                   files, results>>

InitTransactionId ==
    /\ env \in IdentityEnvs
    /\ session_token = env.access_token
    /\ now \in 0..MaxClock
    /\ issued = 0
    /\ pc = "loop"
    /\ i = 1
    /\ attempt = 1
    /\ record_list = <<>>
    /\ already = {}
    /\ data = [r \in Rows |-> EmptyRow]
    /\ error_occurred = FALSE
    /\ consecutive_errors_occurred = FALSE
    /\ error_msg = NoMsg
    /\ exc = NoExc
    /\ response = NoResponse
    /\ token = NoToken
    /\ to_persist = <<>>
    /\ call = NewCall(env)
    /\ outputs = NoOutputs
    /\ buffer_class \in BufferClasses
    /\ set_or_unset_choice = IF buffer_class = "WorldCatRecordsBuffer" THEN "set" ELSE ""
    /\ cascade = IF buffer_class = "WorldCatRecordsBuffer" THEN "0" ELSE ""
    /\ oclc_num_dict = <<>>
    /\ oclc_num_set = {}
    /\ add_order = <<>>
    /\ files = [f \in FileNames(buffer_class) |-> <<>>]
    /\ results = [k \in Counters(buffer_class) |-> 0]
    /\ last = NoLast

TransactionIdNext ==
    \/ GetTransactionIdCall
    \/ MakeApiRequestUrl

\* get_transaction_id and the URL of make_api_request in every environment
SpecTransactionId == InitTransactionId /\ [][TransactionIdNext]_vars


\* ------------------------------------------------------------------------
\* Properties of make_api_request
\* ------------------------------------------------------------------------

\* the renewal of the current call has been granted and every variable
\* written: the replay is about to be sent or has been sent
RenewalCompleted == pc = "replay" \/ Len(call.attempts) = 2

\* the remaining lifetime of the refresh token the call started with, at the
\* time the call read the clock
RemainingAtRenewal ==
    (IF call.env0.has_refresh_expires_at
     THEN call.env0.refresh_expires_at ELSE 0) - call.renew_time

\* C1: a renewal uses the refresh-token grant if and only if a refresh token
\* is configured and its remaining lifetime is more than 25 seconds; in every
\* other case (exactly 25 included) it uses the full client-credentials grant.
C1_GrantChoice ==
    call.renewals > 0 =>
        /\ call.grant \in {"refresh", "full"}
        /\ call.grant = "refresh" <=>
            (call.env0.has_refresh_token /\ RemainingAtRenewal > 25)

\* a full grant was used with a refresh token that had exactly 25 seconds left
C1_Witness ==
    /\ call.renewals = 1
    /\ call.grant = "full"
    /\ call.env0.has_refresh_token
    /\ call.env0.has_refresh_expires_at
    /\ RemainingAtRenewal = 25

\* C2: a call makes at most one renewal and at most two transport attempts;
\* a second attempt exists only after an expired first attempt and a renewal,
\* it carries the new access token, a completed renewal is followed by exactly
\* one replay, and an expired replay ends the call without another renewal.
C2_SingleRenewalSingleReplay ==
    /\ call.renewals <= 1
    /\ Len(call.attempts) <= 2
    /\ Len(call.attempts) = 2 =>
        /\ call.attempts[1].kind = "expired"
        /\ call.renewals = 1
        /\ call.attempts[2].token = token.access_token
        /\ call.attempts[2].token # call.attempts[1].token
    /\ (call.result # "running" /\ call.renewals = 1
            /\ ~call.rejected /\ call.persisted = Len(PersistSteps(call.grant)))
        => Len(call.attempts) = 2
    /\ (Len(call.attempts) = 2 /\ call.attempts[2].kind = "expired") =>
        /\ call.result = "raised"
        /\ pc # "renew"
        /\ pc = "except" => exc = OtherError("TokenExpiredError")

\* a call whose first attempt expired has returned the response of its replay
C2_Witness ==
    /\ call.result = "returned"
    /\ Len(call.attempts) = 2
    /\ call.attempts[1].kind = "expired"
    /\ call.attempts[2].token = AccessToken(1)

\* C3: once a renewal is completed the persisted access token, token type and
\* access-token expiry are the granted ones; the persisted refresh token and
\* its expiry are the granted ones after a full grant and are the ones the
\* call started with after a refresh-token grant.
C3_PersistedCredentials ==
    RenewalCompleted =>
        /\ env.access_token = token.access_token
        /\ env.token_type = token.token_type
        /\ env.access_expires_at = token.expires_at
        /\ call.grant = "full" =>
            /\ env.has_refresh_token /\ env.has_refresh_expires_at
            /\ env.refresh_token = token.refresh_token
            /\ env.refresh_expires_at = token.refresh_token_expires_at
        /\ call.grant = "refresh" =>
            /\ env.has_refresh_token = call.env0.has_refresh_token
            /\ env.refresh_token = call.env0.refresh_token
            /\ env.has_refresh_expires_at = call.env0.has_refresh_expires_at
            /\ env.refresh_expires_at = call.env0.refresh_expires_at

\* a refresh-token grant has been persisted and the replay is about to be sent
C3_Witness ==
    /\ pc = "replay"
    /\ call.grant = "refresh"
    /\ env.access_token = AccessToken(1)
    /\ env.refresh_token = RefreshToken(0)

\* C4: a call whose first transport attempt does not signal an expired token
\* leaves every credential variable as it was and writes none, whatever the
\* status of the response.
C4_NoExpiryNoCredentialChange ==
    (Len(call.attempts) >= 1 /\ call.attempts[1].kind # "expired") =>
        /\ env = call.env0
        /\ call.persisted = 0
        /\ call.renewals = 0
        /\ session_token = call.attempts[1].token

\* a call answered with a 4xx status has ended
C4_Witness ==
    /\ call.result = "raised"
    /\ Len(call.attempts) = 1
    /\ call.attempts[1].kind = "response"
    /\ call.attempts[1].status = 404
    /\ env = call.env0

\* C5: a response with a 4xx or 5xx status, to the first attempt or to the
\* replay, is the last transport attempt of the call, and the call ends by
\* raising the HTTP failure of that status.
C5_NoRetryOfHTTPFailure ==
    \A k \in 1..Len(call.attempts) :
        (call.attempts[k].kind = "response" /\ call.attempts[k].status >= 400)
        =>  /\ k = Len(call.attempts)
            /\ pc = "check" \/ call.result = "raised"
            /\ pc \notin {"send", "renew", "persist", "replay", "parse"}
            /\ pc = "except" => exc = HTTPError(call.attempts[k].status)

\* the replay was answered with a 5xx status and the call raised it
C5_Witness ==
    /\ pc = "except"
    /\ Len(call.attempts) = 2
    /\ call.attempts[2].status = 503
    /\ exc = HTTPError(503)

\* C6: when the token endpoint rejects the grant, the call has made that one
\* grant request only, has written no credential variable, sends no replay
\* and ends by raising the failure.
C6_RejectedRenewal ==
    call.rejected =>
        /\ call.renewals = 1
        /\ Len(call.attempts) = 1
        /\ call.persisted = 0
        /\ env = call.env0
        /\ session_token = call.attempts[1].token
        /\ call.result = "raised"
        /\ pc \notin {"send", "renew", "persist", "replay", "check", "parse"}
        /\ pc = "except" => exc = OtherError("AuthRenewalError")

\* a refresh-token grant was rejected and the failure is with the caller
C6_Witness ==
    /\ call.rejected
    /\ call.grant = "refresh"
    /\ pc = "except"
    /\ exc = OtherError("AuthRenewalError")


\* ------------------------------------------------------------------------
\* Properties of the driver loop
\* ------------------------------------------------------------------------

\* the retry of the current row's process_records has returned
RetryReturned == attempt = 2 /\ call.result = "returned" /\ exc = NoExc

\* the row is classified as its response says: one match resolves the
\* identifier, more than one marks the row
ClassifiedBy(row, body) ==
    /\ body.json
    /\ body.n = 1 => data[row].oclc_num # {} /\ ~data[row].found_multiple
    /\ body.n > 1 => data[row].oclc_num = {} /\ data[row].found_multiple
    /\ body.n >= 1

\* C7: after a 5xx failure of process_records and a retry that returns, the
\* row is classified by the retry's response, has no error recorded, the
\* buffer is cleared and the loop stands at the following row, which it takes
\* like any other.
C7_RetrySuccessResumes ==
    (RetryReturned /\ pc \notin {"parse", "retry_ok", "finally"}) =>
        /\ pc \in {"loop", "after", "done"}
        /\ i > 1
        /\ pc = "loop" \/ i = NumRows + 1
        /\ data[i - 1].error = <<>>
        /\ ClassifiedBy(i - 1, response.body)
        /\ record_list = <<>>
        /\ (pc = "loop" /\ i <= NumRows) => ENABLED NextRow

\* row 1 failed with a 5xx status, its retry found one match, and the loop
\* stands at row 2
C7_Witness ==
    /\ RetryReturned
    /\ pc = "loop"
    /\ i = 2
    /\ data[1].oclc_num # {}
    /\ data[1].error = <<>>
    /\ record_list = <<>>

\* the retry of the current row failed with a server error as well
SecondServerError ==
    /\ consecutive_errors_occurred
    /\ error_msg.prefix = "HTTP Error: "
    /\ IsHTTPErrorStatus(error_msg.status)
    /\ error_msg.status \div 100 = 5

\* C8: once the retry of a row has failed with a second server error, the run
\* halts: the loop never takes another row, the buffer holds the halting row's
\* record and no other, no row after the halting row has any result, and no
\* row other than the halting row changes.
C8_SecondServerErrorHalts ==
    /\ [](SecondServerError =>
            /\ attempt = 2
            /\ pc \in {"finally", "after", "done"}
            /\ i <= NumRows
            /\ record_list = <<i>>
            /\ \A r \in Rows : r > i => data[r] = EmptyRow)
    /\ [][SecondServerError =>
            /\ i' = i
            /\ record_list' = record_list
            /\ pc' \in {"finally", "after", "done"}
            /\ \A r \in Rows : r # i => data'[r] = data[r]]_vars

\* row 1 failed twice with a server error and the run has ended with row 2
\* untouched
C8_Witness ==
    /\ SecondServerError
    /\ pc = "done"
    /\ i = 1
    /\ data[1].error = <<HTTPMsg(HTTPError(503))>>
    /\ data[2] = EmptyRow

\* the loop was left before the rows were exhausted
StoppedEarly == pc \in {"after", "done", "crashed"} /\ i <= NumRows

\* C9: the driver stops before exhausting the rows only after an HTTP failure
\* of the retry that follows a 5xx failure; whatever else the retry does, the
\* loop reaches the next row.
C9_OnlyTwoHTTPFailuresStop ==
    StoppedEarly =>
        /\ attempt = 2
        /\ consecutive_errors_occurred
        /\ error_msg.prefix = "HTTP Error: "

Is4xx(status) == status \div 100 = 4

\* the HTTP failure last handled for the current row was a 4xx
ClientErrorHandled == error_msg.prefix = "HTTP Error: " /\ Is4xx(error_msg.status)

\* C10 as stated: a 4xx failure is recorded against its row, never starts a
\* retry and never halts the run, on the first attempt or on the retry.
C10_ClientErrorNeverHalts ==
    ClientErrorHandled =>
        /\ ~consecutive_errors_occurred
        /\ pc \in {"finally", "loop", "after", "done"}
        /\ pc \in {"after", "done"} => i = NumRows + 1

\* C10 amended: a 4xx failure of the first attempt is recorded as the error
\* of its row, starts no retry and lets the loop go on to the next row; a 4xx
\* failure of the retry that follows a 5xx is recorded as the error of its
\* row and halts the run.
C10_ClientErrorFirstAttemptOnly ==
    /\ (ClientErrorHandled /\ attempt = 1) =>
        /\ ~consecutive_errors_occurred
        /\ pc \in {"finally", "loop", "after", "done"}
        /\ pc \in {"after", "done"} => i = NumRows + 1
        /\ pc # "finally" =>
            /\ data[i - 1].error = <<error_msg>>
            /\ record_list = <<>>
    /\ (ClientErrorHandled /\ attempt = 2) =>
        /\ consecutive_errors_occurred
        /\ pc \in {"finally", "after", "done"}
        /\ i <= NumRows
        /\ pc # "finally" =>
            /\ data[i].error = <<error_msg>>
            /\ record_list = <<i>>

\* the retry of row 1 was answered with a 404 and the run has ended with row 2
\* untouched
C10_Witness ==
    /\ ClientErrorHandled
    /\ attempt = 2
    /\ pc = "done"
    /\ i = 1
    /\ data[1].error = <<HTTPMsg(HTTPError(404))>>
    /\ data[2] = EmptyRow

\* ------------------------------------------------------------------------
\* C11 - C14, C20: the driver's error handling, its outputs and its ends
\* ------------------------------------------------------------------------

AssertionOrJSON == {"AssertionError", "JSONDecodeError"}
AssertionOrJSONPrefix == {"Assertion Error: ", "JSON Decode Error: "}

\* add or process_records of the current row has failed with an assertion
\* failure or a JSON-decode failure: the failure is in flight, or a handler
\* has formatted its message
RowFailedWithAssertionOrJSON ==
    \/ exc.kind \in AssertionOrJSON
    \/ error_msg.prefix \in AssertionOrJSONPrefix

\* C11: when add or process_records of a row fails with an assertion failure
\* or a JSON-decode failure, then once the handlers have run the message of
\* that failure is the row's error, the buffer is empty and the loop has gone
\* on to the next row.
C11_AssertionOrJSONFailureContinues ==
    (RowFailedWithAssertionOrJSON /\ pc \notin {"except", "finally"}) =>
        /\ pc \in {"loop", "after", "done"}
        /\ i > 1
        /\ error_msg.prefix \in AssertionOrJSONPrefix
        /\ data[i - 1].error = <<error_msg>>
        /\ record_list = <<>>

\* the row's recorded error is that of an undecodable response
MalformedResponseRecorded(r) == data[r].error = <<JSONMsg(JSONDecodeError)>>

\* C12: after process_records has been handed a response that cannot be
\* decoded, no further row is processed.
C12_MalformedResponseIsFatal ==
    \A r \in Rows :
        MalformedResponseRecorded(r) => ~(i > r /\ i <= NumRows /\ pc # "loop")

\* the number of output files that hold row r
OutputsHolding(r) ==
    (IF r \in outputs.records_with_oclc_num THEN 1 ELSE 0)
    + (IF r \in outputs.records_with_zero_or_multiple_worldcat_matches THEN 1 ELSE 0)
    + (IF r \in outputs.records_with_errors THEN 1 ELSE 0)

\* C13: at the end of a run every input row is in exactly one of the three
\* outputs.
C13_EveryRowInExactlyOneOutput ==
    pc = "done" => \A r \in Rows : OutputsHolding(r) = 1

\* C14: on every run that reaches the final assertion, the number of input
\* rows equals the total number of rows in the output files.
C14_FinalTallyReconciles ==
    pc = "done" => outputs.assertion = "passed"

\* C20: a run ends either after every row has been taken, or by the halt
\* that follows two consecutive server errors on the same buffer.
C20_TwoWaysToEnd ==
    pc \in {"after", "done", "crashed"} =>
        /\ pc # "crashed"
        /\ i = NumRows + 1 \/ SecondServerError

\* ------------------------------------------------------------------------
\* C15 - C19: the buffers
\* ------------------------------------------------------------------------

IsHeader(row) == row[1] \in {Cell("MMS ID"), Cell("Requested OCLC Number")}

\* the cell of a data row that names the OCLC number the row is about
RowIdentifier(f, row) ==
    IF buffer_class = "WorldCatRecordsBuffer" THEN row[1]
    ELSE IF f = "records_with_old_oclc_num" THEN row[3]
    ELSE row[2]

\* the data rows the last operation appended to file f for OCLC number o
RowsFor(o, f) ==
    Cardinality({k \in DOMAIN last.written[f] :
        /\ ~IsHeader(last.written[f][k])
        /\ RowIdentifier(f, last.written[f][k]) = Cell(o)})

RowsInAllFiles(o) == SumOf([f \in DOMAIN last.written |-> RowsFor(o, f)], DOMAIN last.written)

SinksHolding(o) == Cardinality({f \in DOMAIN last.written : RowsFor(o, f) > 0})

\* the entries for OCLC number o that the loop of the last operation reached
EntriesFor(o) ==
    Cardinality({k \in DOMAIN last.entries :
        last.entries[k].requestedOclcNumber = o})

AlmaProcessed == buffer_class = "AlmaRecordsBuffer" /\ last.op = "process_records"
WorldCatProcessed == buffer_class = "WorldCatRecordsBuffer" /\ last.op = "process_records"

\* C15 as stated: after process_records of the holdings-check buffer every
\* OCLC number in the buffer is in exactly one of the Current, Old and Error
\* files.
C15_EveryIdentifierInExactlyOneSink ==
    AlmaProcessed => \A o \in DOMAIN oclc_num_dict : SinksHolding(o) = 1

\* C15 amended: process_records of the holdings-check buffer writes one row
\* for every response entry its loop reaches whose number is in the buffer, and
\* no other row; a number of the buffer with exactly one such entry is in
\* exactly one of the three files.
C15_OneRowPerEntryReached ==
    AlmaProcessed =>
        \A o \in OclcNums :
            /\ RowsInAllFiles(o) =
                    IF o \in DOMAIN oclc_num_dict THEN EntriesFor(o) ELSE 0
            /\ (o \in DOMAIN oclc_num_dict /\ EntriesFor(o) = 1) => SinksHolding(o) = 1

\* both numbers are in the buffer, the response had one entry for each, and
\* the two rows went to different files
C15_Witness ==
    /\ AlmaProcessed
    /\ last.raised = NoExc
    /\ DOMAIN oclc_num_dict = OclcNums
    /\ \A o \in OclcNums : EntriesFor(o) = 1 /\ SinksHolding(o) = 1
    /\ Cardinality({f \in DOMAIN last.written : last.written[f] # <<>>}) = 2

\* C16 as stated: after process_records of the set/unset buffer every OCLC
\* number in the buffer is in exactly one of the Updated, NoUpdateNeeded and
\* Error files.
C16_EveryIdentifierInExactlyOneSink ==
    WorldCatProcessed => \A o \in oclc_num_set : SinksHolding(o) = 1

\* C16 amended: process_records of the set/unset buffer writes one row for
\* every entry of the response, in one file; a number of the buffer with
\* exactly one entry in the response is in exactly one of the three files.
C16_OneRowPerEntry ==
    WorldCatProcessed =>
        \A o \in OclcNums :
            /\ RowsInAllFiles(o) = EntriesFor(o)
            /\ EntriesFor(o) = 1 => SinksHolding(o) = 1

\* both numbers are in the buffer, the response had one entry for each: a
\* conflict and an update
C16_Witness ==
    /\ WorldCatProcessed
    /\ last.raised = NoExc
    /\ oclc_num_set = OclcNums
    /\ \A o \in OclcNums : EntriesFor(o) = 1 /\ SinksHolding(o) = 1
    /\ last.written["records_updated"] # <<>>
    /\ last.written["records_with_no_update_needed"] # <<>>

\* C17: the search buffer never holds more than one record; an add on a
\* non-empty search buffer raises AssertionError and leaves the stored
\* record as it was.
C17_SearchBufferAtMostOne ==
    buffer_class = "WorldCatSearchBuffer" =>
        /\ Len(record_list) <= 1
        /\ (last.op = "add" /\ last.before.record_list # <<>>) =>
            /\ last.raised.kind = "AssertionError"
            /\ record_list = last.before.record_list

\* an add of another row was refused while the buffer held a record
C17_Witness ==
    /\ buffer_class = "WorldCatSearchBuffer"
    /\ last.op = "add"
    /\ last.raised.kind = "AssertionError"
    /\ Len(record_list) = 1
    /\ last.arg[1] # record_list[1]

\* C18: in the holdings-check and set/unset buffers an add of a number that
\* is in the buffer raises AssertionError and changes nothing (the number
\* keeps the MMS ID of its first add); an add of a number that is not in the
\* buffer raises nothing, adds that number and nothing else.
C18_AddDuplicateFails ==
    /\ (buffer_class = "AlmaRecordsBuffer" /\ last.op = "add") =>
        LET old == last.before.oclc_num_dict IN
        IF last.arg[1] \in DOMAIN old
        THEN /\ last.raised.kind = "AssertionError"
             /\ oclc_num_dict = old
        ELSE /\ last.raised = NoExc
             /\ Cardinality(DOMAIN oclc_num_dict) = Cardinality(DOMAIN old) + 1
             /\ DOMAIN oclc_num_dict = DOMAIN old \cup {last.arg[1]}
             /\ oclc_num_dict[last.arg[1]] = last.arg[2]
             /\ \A o \in DOMAIN old : oclc_num_dict[o] = old[o]
    /\ (buffer_class = "WorldCatRecordsBuffer" /\ last.op = "add") =>
        LET old == last.before.oclc_num_set IN
        IF last.arg[1] \in old
        THEN /\ last.raised.kind = "AssertionError"
             /\ oclc_num_set = old
        ELSE /\ last.raised = NoExc
             /\ Cardinality(oclc_num_set) = Cardinality(old) + 1
             /\ oclc_num_set = old \cup {last.arg[1]}

\* a number was added again with another MMS ID: the add was refused and the
\* number still has the MMS ID of its first add
C18_Witness ==
    /\ buffer_class = "AlmaRecordsBuffer"
    /\ last.op = "add"
    /\ last.raised.kind = "AssertionError"
    /\ last.arg[1] \in DOMAIN oclc_num_dict
    /\ oclc_num_dict[last.arg[1]] # last.arg[2]

\* the contents of the buffer, whatever its class
Contents ==
    [oclc_num_dict |-> oclc_num_dict, oclc_num_set |-> oclc_num_set,
     record_list |-> record_list]
ContentsBefore ==
    [oclc_num_dict |-> last.before.oclc_num_dict,
     oclc_num_set |-> last.before.oclc_num_set,
     record_list |-> last.before.record_list]

\* C19: remove_all_records leaves every buffer empty; process_records,
\* whether it returns or raises, leaves the contents as they were; add removes
\* nothing.
C19_OnlyRemoveAllRecordsRemoves ==
    /\ last.op = "remove_all_records" =>
        /\ oclc_num_dict = <<>>
        /\ oclc_num_set = {}
        /\ record_list = <<>>
    /\ last.op = "process_records" => Contents = ContentsBefore
    /\ last.op = "add" =>
        /\ DOMAIN last.before.oclc_num_dict \subseteq DOMAIN oclc_num_dict
        /\ \A o \in DOMAIN last.before.oclc_num_dict :
                oclc_num_dict[o] = last.before.oclc_num_dict[o]
        /\ last.before.oclc_num_set \subseteq oclc_num_set
        /\ Len(last.before.record_list) <= Len(record_list)
        /\ \A k \in DOMAIN last.before.record_list :
                record_list[k] = last.before.record_list[k]

\* a process_records call that wrote a row for the number in the buffer and
\* then raised on an entry for another number has left the buffer as it was
C19_Witness ==
    /\ AlmaProcessed
    /\ last.raised # NoExc
    /\ Len(last.entries) = 2
    /\ Cardinality(DOMAIN oclc_num_dict) = 1
    /\ \E o \in DOMAIN oclc_num_dict : RowsInAllFiles(o) = 1
    /\ Contents = ContentsBefore

\* ------------------------------------------------------------------------
\* C30: the driver's buffer between rows
\* ------------------------------------------------------------------------

NotEmptied == "Records buffer was not properly emptied"

\* C30: whenever the loop is about to take a row the buffer is empty, and
\* the driver's 'buffer was not properly emptied' assertion never fails: its
\* message is never in flight, never formatted and never recorded.
C30_BufferEmptyWhenRowBegins ==
    /\ pc = "loop" => record_list = <<>>
    /\ exc.detail # NotEmptied
    /\ error_msg.detail # NotEmptied
    /\ \A r \in Rows : data[r].error # <<AssertionMsg(AssertionError(NotEmptied))>>

\* row 1 ended with a recorded failure, and row 2 has been added to the
\* buffer, which holds nothing else
C30_Witness ==
    /\ pc = "send"
    /\ i = 2
    /\ attempt = 1
    /\ data[1].error # <<>>
    /\ record_list = <<2>>

\* ------------------------------------------------------------------------
\* C21 - C26: what process_records writes, counts and requests
\* ------------------------------------------------------------------------

NotHeader(row) == ~IsHeader(row)

\* the data rows the last operation appended to file f, in file order
DataRows(f) == SelectSeq(last.written[f], NotHeader)

\* the sink and the row that C21 gives to an entry of the holdings check
C21_Sink(e) ==
    IF ~e.found THEN "records_with_errors"
    ELSE IF ~e.merged THEN "records_with_current_oclc_num"
    ELSE "records_with_old_oclc_num"
C21_Row(e, key) ==
    IF ~e.found
    THEN <<Cell(key), Cell(e.requestedOclcNumber),
           <<AlmaErrorMsg, ": OCLC number not found">>>>
    ELSE IF ~e.merged
    THEN <<Cell(key), Cell(e.currentOclcNumber)>>
    ELSE <<Cell(key), Cell(e.currentOclcNumber), Cell(e.requestedOclcNumber)>>

\* the rows C21 expects in file f for the entries, in entry order
RECURSIVE C21_Rows(_, _)
C21_Rows(entries, f) ==
    IF entries = <<>> THEN <<>>
    ELSE LET e == Head(entries)
             rest == C21_Rows(Tail(entries), f) IN
         IF e.requestedOclcNumber \in DOMAIN oclc_num_dict /\ C21_Sink(e) = f
         THEN <<C21_Row(e, oclc_num_dict[e.requestedOclcNumber])>> \o rest
         ELSE rest

\* C21: the data rows process_records of the holdings-check buffer appends
\* are, file by file, those of the entries it reached: not found gives an
\* Error row (MMS ID, requested number, 'not found') whatever merged says,
\* found and not merged a Current row (MMS ID, current number), found and
\* merged an Old row (MMS ID, current number, original number).
C21_AlmaClassification ==
    AlmaProcessed =>
        \A f \in DOMAIN last.written : DataRows(f) = C21_Rows(last.entries, f)

\* a response with an entry that is merged but not found, and an entry that
\* is found and merged: one Error row and one Old row
C21_Witness ==
    /\ AlmaProcessed
    /\ last.raised = NoExc
    /\ Len(last.entries) = 2
    /\ ~last.entries[1].found /\ last.entries[1].merged
    /\ last.entries[2].found /\ last.entries[2].merged
    /\ Len(DataRows("records_with_errors")) = 1
    /\ Len(DataRows("records_with_old_oclc_num")) = 1
    /\ DataRows("records_with_current_oclc_num") = <<>>

\* the counter of the results dictionary that belongs to a file
CounterOf(f) ==
    IF f = "records_with_current_oclc_num" THEN "num_records_with_current_oclc_num"
    ELSE IF f = "records_with_old_oclc_num" THEN "num_records_with_old_oclc_num"
    ELSE IF f = "records_updated" THEN "num_records_updated"
    ELSE IF f = "records_with_no_update_needed" THEN "num_records_with_no_update_needed"
    ELSE "num_records_with_errors"

\* the data rows of file f, over all calls
RowLines(f) == Cardinality({k \in DOMAIN files[f] : files[f][k] = "row"})

C23_Sink(e) ==
    IF e.httpStatusCode = "HTTP 200 OK" THEN "records_updated"
    ELSE IF e.httpStatusCode = "HTTP 409 Conflict" THEN "records_with_no_update_needed"
    ELSE "records_with_errors"

\* the entries among the given ones that C23 sends to file f, in entry order
RECURSIVE C23_Entries(_, _)
C23_Entries(entries, f) ==
    IF entries = <<>> THEN <<>>
    ELSE (IF C23_Sink(Head(entries)) = f THEN <<Head(entries)>> ELSE <<>>)
         \o C23_Entries(Tail(entries), f)

\* row is the row of entry e in file f: the requested number first; in the
\* NoUpdateNeeded file the conflict detail, in the Error file the status
\* and the detail, in the message cell
C23_RowOf(row, e, f) ==
    LET msg == row[3]
        Has(t) == \E k \in DOMAIN msg : msg[k] = t IN
    /\ row[1] = Cell(e.requestedOclcNumber)
    /\ f = "records_with_no_update_needed" => Has(e.errorDetail)
    /\ f = "records_with_errors" => Has(e.httpStatusCode) /\ Has(e.errorDetail)

\* C23: process_records of the set / unset buffer gives every entry of the
\* response one row, in the file its httpStatusCode alone selects: 200 the
\* Updated file, 409 the NoUpdateNeeded file with the conflict detail, any
\* other status the Error file with the status and the detail; the counter
\* of that file grows by one per row.
C23_WorldCatClassification ==
    WorldCatProcessed =>
        \A f \in DOMAIN last.written :
            LET es == C23_Entries(last.entries, f) IN
            /\ Len(DataRows(f)) = Len(es)
            /\ \A k \in DOMAIN es : C23_RowOf(DataRows(f)[k], es[k], f)
            /\ results[CounterOf(f)] - last.before.results[CounterOf(f)] = Len(es)

\* an update whose number has changed and an error whose number has not
C23_Witness ==
    /\ WorldCatProcessed
    /\ Len(last.entries) = 2
    /\ last.entries[1].httpStatusCode = "HTTP 200 OK"
    /\ last.entries[1].requestedOclcNumber # last.entries[1].currentOclcNumber
    /\ last.entries[2].httpStatusCode = "HTTP 400 Bad Request"
    /\ Len(DataRows("records_updated")) = 1
    /\ Len(DataRows("records_with_errors")) = 1
    /\ results["num_records_updated"] = 1
    /\ results["num_records_with_errors"] = 1

\* a is b with some elements left out
RECURSIVE IsSubsequence(_, _)
IsSubsequence(a, b) ==
    IF a = <<>> THEN TRUE
    ELSE IF b = <<>> THEN FALSE
    ELSE IF Head(a) = Head(b) THEN IsSubsequence(Tail(a), Tail(b))
    ELSE IsSubsequence(a, Tail(b))

\* the requested numbers of the rows appended to f, and of the entries read
RowNumbers(f) == [k \in DOMAIN DataRows(f) |-> DataRows(f)[k][1]]
EntryNumbers == [k \in DOMAIN last.entries |-> Cell(last.entries[k].requestedOclcNumber)]

\* C24: in every file the rows process_records of the set / unset buffer
\* appends stand in the order of their entries in the response.
C24_RowsInResponseOrder ==
    WorldCatProcessed =>
        \A f \in DOMAIN last.written : IsSubsequence(RowNumbers(f), EntryNumbers)

\* ocm1 was added before ocm2, the response names ocm2 before ocm1, both
\* entries went to the same file, and there the row of ocm2 stands first
C24_Witness ==
    /\ WorldCatProcessed
    /\ add_order = <<"ocm1", "ocm2">>
    /\ EntryNumbers = <<Cell("ocm2"), Cell("ocm1")>>
    /\ \E f \in DOMAIN last.written : RowNumbers(f) = <<Cell("ocm2"), Cell("ocm1")>>

\* process_records of the set / unset buffer has sent its request
WorldCatRequested ==
    /\ buffer_class = "WorldCatRecordsBuffer"
    /\ last.op = "process_records"

\* C25: process_records of the set / unset buffer sends one request that names
\* every number in the buffer: POST without the cascade parameter for 'set',
\* DELETE with the configured cascade value for 'unset'; the parameter is
\* present exactly when the method is DELETE.
C25_OneRequestForAllNumbers ==
    WorldCatRequested =>
        /\ last.request.oclcNumbers = oclc_num_set
        /\ set_or_unset_choice = "set" =>
                last.request.method = "POST" /\ last.request.cascade = <<>>
        /\ set_or_unset_choice = "unset" =>
                last.request.method = "DELETE" /\ last.request.cascade = <<cascade>>
        /\ last.request.cascade # <<>> <=> last.request.method = "DELETE"

\* a 'set' buffer configured with cascade "1" has sent a POST for two numbers
C25_Witness ==
    /\ WorldCatRequested
    /\ set_or_unset_choice = "set"
    /\ cascade = "1"
    /\ last.request.method = "POST"
    /\ last.request.oclcNumbers = {"ocm1", "ocm2"}


\* ------------------------------------------------------------------------
\* C26 - C29: undecodable responses and the WorldCat search
\* ------------------------------------------------------------------------

\* process_records of any of the three buffers received a response body
\* that is not JSON
UndecodableResponse ==
    /\ last.op = "process_records"
    /\ last.body = <<NoBody>>

\* C26: process_records of each buffer raises the JSONDecodeError of an
\* undecodable response again, appends no row to any file, changes no counter
\* and no row of the DataFrame.
C26_UndecodableResponseIsReraised ==
    UndecodableResponse =>
        /\ last.raised = JSONDecodeError
        /\ files = last.before.files
        /\ results = last.before.results
        /\ data = last.before.data
        /\ \A f \in DOMAIN last.written : last.written[f] = <<>>

\* a holdings-check buffer that had already written rows and counted them
\* received an undecodable response and raised JSONDecodeError
C26_Witness ==
    /\ UndecodableResponse
    /\ buffer_class = "AlmaRecordsBuffer"
    /\ last.raised = JSONDecodeError
    /\ \E k \in DOMAIN results : results[k] > 0
    /\ \E f \in DOMAIN files : files[f] # <<>>

\* process_records of the search buffer received a response with
\* numberOfRecords = n
SearchAnswered(n) ==
    /\ buffer_class = "WorldCatSearchBuffer"
    /\ last.op = "process_records"
    /\ last.body = <<[json |-> TRUE, n |-> n]>>

\* C27: a search with zero matches raises the 'No records found' failure and
\* leaves the row as it was; exactly one match sets the OCLC number of the row
\* the buffer holds; more than one match marks that row and leaves its OCLC
\* number as it was. No other row changes.
C27_SearchOutcomeByMatches ==
    \A n \in 0..2 :
        SearchAnswered(n) =>
            LET row == last.before.record_list[1]
                was == last.before.data IN
            /\ \A r \in Rows \ {row} : data[r] = was[r]
            /\ n = 0 => /\ last.raised = AssertionError("No records found in WorldCat.")
                        /\ data[row] = was[row]
            /\ n = 1 => /\ last.raised = NoExc
                        /\ data[row] = [was[row] EXCEPT !.oclc_num = {row}]
            /\ n > 1 => /\ last.raised = NoExc
                        /\ data[row] = [was[row] EXCEPT !.found_multiple = TRUE]

\* the search for row 2 found two records: the row is marked and has no OCLC
\* number, while row 1 keeps the OCLC number of its single match
C27_Witness ==
    /\ SearchAnswered(2)
    /\ last.before.record_list = <<2>>
    /\ data[2].found_multiple
    /\ data[2].oclc_num = {}
    /\ data[1].oclc_num = {1}
    /\ ~data[1].found_multiple

\* process_records of the search buffer has sent its request
SearchRequested ==
    /\ buffer_class = "WorldCatSearchBuffer"
    /\ last.op = "process_records"
    /\ last.request.method = "GET"

\* C28: the search request carries heldBySymbol only if the caller asked for
\* the search of its own holdings first (the argument of process_records).
C28_HeldByOnlyOnRequest ==
    SearchRequested =>
        (last.request.heldBySymbol # <<>> => last.arg = <<TRUE>>)

\* the order in which main's documentation lists the identifier columns
\* (search_worldcat.py, lines 59-69)
Priority == <<"lccn_fixed", "lccn", "isbn", "issn", "gov_doc_class_num_086">>

\* the value of the first column in that order that is not empty
FirstPresent(rec) ==
    LET present == {k \in DOMAIN Priority : rec[Priority[k]] # ""} IN
    IF present = {} THEN ""
    ELSE rec[Priority[CHOOSE k \in present : \A j \in present : k <= j]]

\* C29: the search request asks for the value of the first identifier column
\* of the row that is present, in the order lccn_fixed, lccn, isbn, issn,
\* gov_doc_class_num_086.
C29_SearchesFirstPresentIdentifier ==
    SearchRequested =>
        last.request.q[2] = FirstPresent(last.before.data[last.before.record_list[1]])


\* ------------------------------------------------------------------------
\* C31: the transaction id
\* ------------------------------------------------------------------------

\* get_transaction_id has returned, by itself or inside make_api_request
TransactionIdBuilt == last.op \in {"get_transaction_id", "make_api_request"}

\* C31: the transaction id is '{symbol}_{timestamp}_{principal}', without
\* 'symbol_' when the institution symbol is absent or empty, without
\* '_principal' when the principal id is absent, and the empty string when
\* neither variable is set; make_api_request appends '&transactionID=' and the
\* id to the URL exactly when the id is not empty.
C31_TransactionIdFormat ==
    TransactionIdBuilt =>
        LET prefix == IF env.has_institution_symbol /\ env.institution_symbol # ""
                      THEN env.institution_symbol \o "_" ELSE ""
            suffix == IF env.has_principal_id
                      THEN "_" \o env.principal_id ELSE "" IN
        /\ last.transaction_id =
                IF ~env.has_institution_symbol /\ ~env.has_principal_id THEN ""
                ELSE prefix \o Strftime(now) \o suffix
        /\ last.op = "make_api_request" =>
                /\ last.transaction_id = "" => last.api_url = last.arg[1]
                /\ last.transaction_id # "" =>
                        last.api_url = last.arg[1] \o "&transactionID="
                                                  \o last.transaction_id

\* the institution symbol is set but empty and the principal id is set: the
\* id is the timestamp and the principal id, and the URL carries it
C31_Witness ==
    /\ last.op = "make_api_request"
    /\ env.has_institution_symbol /\ env.institution_symbol = ""
    /\ env.has_principal_id /\ env.principal_id = "PID"
    /\ now = 1
    /\ last.transaction_id = "1970-01-01T00:00:01Z_PID"
    /\ last.api_url = last.arg[1] \o "&transactionID=1970-01-01T00:00:01Z_PID"


\* ------------------------------------------------------------------------
\* C32: the header rows
\* ------------------------------------------------------------------------

\* the lines of a file are one header row followed by one or more data rows
HeaderThenRows(lines) ==
    /\ Len(lines) >= 2
    /\ lines[1] = "header"
    /\ \A k \in 2..Len(lines) : lines[k] = "row"

\* C32: every output file of the holdings-check and the set / unset buffer is
\* empty or is one header row followed by one or more data rows.
C32_HeaderOncePerSink ==
    buffer_class \in {"AlmaRecordsBuffer", "WorldCatRecordsBuffer"} =>
        \A f \in DOMAIN files : files[f] = <<>> \/ HeaderThenRows(files[f])

\* a second call of process_records appended a row, and no header, to a file
\* that already had its header and a row; another file is still empty
C32_Witness ==
    /\ AlmaProcessed
    /\ \E f \in DOMAIN files :
        /\ last.before.files[f] = <<"header", "row">>
        /\ files[f] = <<"header", "row", "row">>
        /\ Len(last.written[f]) = 1
    /\ \E f \in DOMAIN files : files[f] = <<>>


\* ------------------------------------------------------------------------
\* C33 - C36: the driver and make_api_request, once more
\* ------------------------------------------------------------------------

\* transport attempts and token renewals of the current row so far
AttemptsOfRow ==
    Len(call.attempts) + (IF call.first = <<>> THEN 0 ELSE call.first[1].attempts)
RenewalsOfRow ==
    call.renewals + (IF call.first = <<>> THEN 0 ELSE call.first[1].renewals)

\* C33: for every row process_records is called at most twice, and a second
\* time only after the first call raised an HTTPError with a 5xx status; a
\* row causes at most four transport attempts and two token renewals.
C33_AtMostTwoCallsPerRow ==
    /\ attempt \in {1, 2}
    /\ attempt = 1 => call.first = <<>>
    /\ attempt = 2 =>
        /\ call.first # <<>>
        /\ call.first[1].kind = "HTTPError"
        /\ call.first[1].status_class = 5
    /\ Len(call.attempts) <= 2
    /\ call.renewals <= 1
    /\ AttemptsOfRow <= 4
    /\ RenewalsOfRow <= 2

\* a row whose two process_records calls each renewed the token and replayed
\* the request: four attempts, two renewals
C33_Witness ==
    /\ attempt = 2
    /\ pc = "finally"
    /\ AttemptsOfRow = 4
    /\ RenewalsOfRow = 2

\* this step sends the replay of the current call
ReplaySent == Len(call.attempts) = 1 /\ Len(call'.attempts) = 2

\* a set_env_var call of the current call's renewal failed
PersistFailed ==
    /\ call.renewals = 1
    /\ ~call.rejected
    /\ call.result = "raised"
    /\ call.persisted < Len(PersistSteps(call.grant))

\* C34: when the replay is sent every set_env_var call of the renewal has
\* been made: the persisted access token, token type and access-token expiry
\* (after a full grant the refresh token and its expiry too) are the granted
\* ones; after a failed set_env_var call no replay is sent.
C34_PersistedBeforeReplay ==
    /\ [][ReplaySent =>
            /\ to_persist = <<>>
            /\ call.persisted = Len(PersistSteps(call.grant))
            /\ env.access_token = token.access_token
            /\ env.token_type = token.token_type
            /\ env.access_expires_at = token.expires_at
            /\ call.grant = "full" =>
                /\ env.has_refresh_token /\ env.refresh_token = token.refresh_token
                /\ env.has_refresh_expires_at
                /\ env.refresh_expires_at = token.refresh_token_expires_at
            /\ env' = env]_vars
    /\ [](PersistFailed => Len(call.attempts) = 1)

\* the replay of a call that renewed with the full grant has been sent with
\* all five variables written
C34_Witness ==
    /\ Len(call.attempts) = 2
    /\ call.grant = "full"
    /\ call.persisted = 5
    /\ env.refresh_token = RefreshToken(issued)
    /\ env.access_token = AccessToken(issued)

\* the current call renewed the token in an environment that has a refresh
\* token and no expiry of it
RenewedWithoutExpiry ==
    /\ call.renewals = 1
    /\ call.env0.has_refresh_token
    /\ ~call.env0.has_refresh_expires_at

\* C35: with a refresh token and no refresh-token expiry in the environment
\* the expiry counts as the epoch, the remaining lifetime is negative, the
\* renewal asks for the full grant, and a completed renewal has written the
\* granted refresh token and its expiry.
C35_MissingExpiryTakesFullGrant ==
    RenewedWithoutExpiry =>
        /\ RefreshTokenExpiresAt(call.env0) = 0
        /\ RefreshTokenExpiresIn(call.env0, call.renew_time) < 0
        /\ call.grant = "full"
        /\ call.persisted >= 1 =>
                env.has_refresh_token /\ env.refresh_token = token.refresh_token
        /\ call.persisted >= 2 =>
                /\ env.has_refresh_expires_at
                /\ env.refresh_expires_at = token.refresh_token_expires_at

\* such a call has renewed with the full grant and written all five
\* variables: the environment now has an expiry
C35_Witness ==
    /\ RenewedWithoutExpiry
    /\ call.grant = "full"
    /\ call.persisted = 5
    /\ call.env0.refresh_token = RefreshToken(0)
    /\ env.refresh_token = RefreshToken(1)
    /\ env.has_refresh_expires_at

\* the loop was left by the break that follows a failed retry
HaltedAfterRetry == consecutive_errors_occurred /\ pc \in {"after", "done"}

\* the status of the response to the last transport attempt of the current call
LastStatus == call.attempts[Len(call.attempts)].status

\* C36: when the driver has halted after a failed retry, the error column of
\* the halting row holds the HTTP failure of the retry, the buffer still holds
\* that row's record, and no later row has an OCLC number, a mark of several
\* matches or an error.
C36_HaltState ==
    HaltedAfterRetry =>
        /\ attempt = 2
        /\ i <= NumRows
        /\ data[i].error = <<HTTPMsg(HTTPError(LastStatus))>>
        /\ record_list = <<i>>
        /\ \A r \in Rows : r > i =>
                /\ data[r].oclc_num = {}
                /\ ~data[r].found_multiple
                /\ data[r].error = <<>>

\* row 1 failed with a 5xx status and its retry with status 404: the run has
\* ended, row 1 carries the 404 failure and the buffer still holds row 1
C36_Witness ==
    /\ HaltedAfterRetry
    /\ pc = "done"
    /\ i = 1
    /\ call.first = <<[attempts |-> 1, renewals |-> 0, kind |-> "HTTPError",
                       status_class |-> 5]>>
    /\ data[1].error = <<HTTPMsg(HTTPError(404))>>
    /\ record_list = <<1>>
    /\ data[2].error = <<>>

====
